---------------------------- MODULE Spec2Model ----------------------------
(***************************************************************************)
(* Model of the penguin-rs stream multiplexor (src/src/mux/inner.rs): the  *)
(* demultiplex task, the port table, the per-port receive queues, the      *)
(* drop-notify channel and the virtual streams that use them.              *)
(*                                                                         *)
(* A multiplexor sits at each end of a transport.  An end at which no      *)
(* multiplexor was constructed is a raw transport peer: it can put any     *)
(* message on the transport and read what the multiplexor sends.           *)
(***************************************************************************)
EXTENDS Naturals, Integers, Sequences, FiniteSets, TLC

(***************************************************************************)
(* Bounds of the model.                                                    *)
(***************************************************************************)
\* ports are 0..MaxPort instead of 0..65535
MaxPort == 2
\* source ports a raw peer puts in the frames it crafts: 1..MaxPeerPort
MaxPeerPort == 1
\* MuxStream objects in existence at one end at a time, in the runs with many
MaxStreams == 2
\* messages in flight in one direction of the transport
MaxWire == 1
\* data payloads written in one run (each carries its number)
MaxPsh == 2
\* client_new_stream_channel calls in flight
MaxPending == 2
\* drop notifications the task has not taken yet
MaxDropped == 1
\* streams in the hands of the users of one end at a time
MaxLive == 1
\* connections one adapter loop takes in one run
MaxConn == 3
\* tasks spawned by one adapter and still running
MaxSpawned == 2

\* capacity of a per-port receive queue, mpsc::channel(config::STREAM_FRAME_BUFFER_SIZE)
STREAM_FRAME_BUFFER_SIZE == 2
\* capacity of the accept queue (stream_tx)
STREAM_BUFFER_SIZE == 1
\* capacity of the datagram channel (datagram_tx)
DATAGRAM_BUFFER_SIZE == 1

Ports == 0..MaxPort
PeerPorts == 1..MaxPeerPort
Role == {"Client", "Server"}
Peer(e) == IF e = "Client" THEN "Server" ELSE "Client"

\* Bytes::new(): the empty payload, which a reader takes as end of stream
EOF == << >>

Min(a, b) == IF a < b THEN a ELSE b

(***************************************************************************)
(* Messages of the transport (tungstenite::Message) and stream frames.     *)
(***************************************************************************)
Msg(kind, sport, dport, flag, data) ==
    [kind |-> kind, sport |-> sport, dport |-> dport, flag |-> flag, data |-> data]

StreamFrame(sport, dport, flag, data) == Msg("Stream", sport, dport, flag, data)
new_syn(sport, data) == StreamFrame(sport, 0, "Syn", data)
new_ack(sport, dport) == StreamFrame(sport, dport, "Ack", EOF)
NewRstUnswapped(sport, dport) == StreamFrame(dport, sport, "Rst", EOF)
new_rst(sport, dport) == StreamFrame(sport, dport, "Rst", EOF)
new_fin(sport, dport) == StreamFrame(sport, dport, "Fin", EOF)
new_psh(sport, dport, data) == StreamFrame(sport, dport, "Psh", data)
Ping(data) == Msg("Ping", 0, 0, "-", data)
Pong(data) == Msg("Pong", 0, 0, "-", data)
Close == Msg("Close", 0, 0, "-", EOF)
Text == Msg("Text", 0, 0, "-", EOF)

\* a binary message, as the octets it is made of
Binary(octets) == Msg("Binary", 0, 0, "-", octets)

\* a Datagram frame
DatagramFrame(host, port, sid, data) ==
    [host |-> host, port |-> port, sid |-> sid, data |-> data]

\* the `width` octets of n, most significant first
RECURSIVE Octets(_, _)
Octets(n, width) ==
    IF width = 0 THEN << >> ELSE Octets(n \div 256, width - 1) \o <<n % 256>>

\* the number whose octets, most significant first, are b
RECURSIVE Number(_)
Number(b) ==
    IF b = << >> THEN 0 ELSE Number(SubSeq(b, 1, Len(b) - 1)) * 256 + b[Len(b)]

\* datagram: 0x02 | hlen:u8 | host[hlen] | port:u16 | src_id:u32 | payload
EncodeDatagram(f) ==
    Binary(<<2, Len(f.host)>> \o f.host \o Octets(f.port, 2) \o Octets(f.sid, 4) \o f.data)

\* data.try_into() yields a Datagram frame
Decodable(b) == Len(b) >= 2 /\ b[1] = 2 /\ Len(b) >= b[2] + 8

DecodeDatagram(b) ==
    LET h == b[2]
    IN  DatagramFrame(SubSeq(b, 3, h + 2), Number(SubSeq(b, h + 3, h + 4)),
                      Number(SubSeq(b, h + 5, h + 8)), SubSeq(b, h + 9, Len(b)))

\* the Syn handshake of (host = "", port = 0): host length, host, port (two octets)
Handshake == <<0, 0, 0>>

(***************************************************************************)
(* State.                                                                  *)
(*   mux[e]   the multiplexor at end e (task = "absent": none was built;   *)
(*            task = "panicked": the task is gone without shutdown):       *)
(*            the state of its task, its port table (streams), the         *)
(*            MuxStream objects it made (ms), the accept queue             *)
(*            (stream_tx), the datagram channel (datagram_tx), whether     *)
(*            its front end is still held, whether its sink still takes    *)
(*            messages, its keepalive interval, the drop-notify channel    *)
(*            (dropped_ports), the ports of the client calls in flight     *)
(*            (pending) and the send its task is suspended in (blocked)    *)
(*   wire[e]  the messages in flight towards end e, oldest first           *)
(*   seq      the number the next data payload written carries (0: the     *)
(*            payloads of this run are not numbered, all carry 0)          *)
(*   request  the HTTP request the server is routing, with the server's    *)
(*            arguments, the filter of the route chain that is trying it   *)
(*            and the response it got                                      *)
(*   remote   one handle_remote task of the client: the adapter it runs,   *)
(*            where it is in the adapter's loop, and what it returned      *)
(***************************************************************************)
VARIABLES mux, wire, seq, request, remote

vars == <<mux, wire, seq, request, remote>>

\* no request is being routed
NoRequest == [at |-> "idle"]

\* no handle_remote task was spawned
NoRemote == [pc |-> "idle"]

\* a slot that holds no MuxStream
NoStream ==
    [st |-> "free", our_port |-> 0, their_port |-> 0, fin_sent |-> FALSE,
     stream_removed |-> FALSE, frame_rx |-> << >>, last |-> 0, rsts |-> 0, eofs |-> 0]

\* the task is not suspended inside a handler
NotBlocked ==
    [kind |-> "none", id |-> 0, data |-> EOF, our |-> 0, their |-> 0, then |-> "-"]

Blocked(kind, id, data, our, their, then) ==
    [kind |-> kind, id |-> id, data |-> data, our |-> our, their |-> their, then |-> then]

\* a multiplexor just built, in a run with at most n MuxStream objects at a time
NewMux(task, n) ==
    [task |-> task,
     result |-> "none",
     streams |-> [p \in Ports |-> 0],
     ms |-> [i \in 1..n |-> NoStream],
     stream_tx |-> << >>,
     datagram_tx |-> << >>,
     front |-> "held",
     sink |-> "open",
     keepalive_interval |-> "None",
     dropped_ports |-> << >>,
     pending |-> << >>,
     blocked |-> NotBlocked]

(***************************************************************************)
(* Per-port receive queues (frame_tx / frame_rx) and the port table.       *)
(***************************************************************************)
\* the receiving half of stream id's queue exists: the MuxStream was not dropped
ReceiverAlive(m, id) == m.ms[id].st \in {"queued", "live"}

\* the sending half of stream id's queue exists: the port table, or a send the
\* task is suspended in, holds it
SenderAlive(m, id) ==
    \/ \E p \in Ports : m.streams[p] = id
    \/ (m.blocked.kind = "send" /\ m.blocked.id = id)

\* a send into a queue that has no capacity limit
TrySendUnbounded(m, id) == IF ~ReceiverAlive(m, id) THEN "closed" ELSE "ok"

\* what frame_tx.send(..).await meets: "ok", "closed" (no receiver) or "full"
TrySend(m, id) ==
    IF ~ReceiverAlive(m, id) THEN "closed"
    ELSE IF Len(m.ms[id].frame_rx) < STREAM_FRAME_BUFFER_SIZE THEN "ok"
    ELSE "full"

\* a queue that takes a value at its head
EnqueueFront(q, d) == <<d>> \o q

\* a bounded mpsc channel takes a value at its tail
Enqueue(q, d) == Append(q, d)

PutFrame(m, id, d) == [m EXCEPT !.ms[id].frame_rx = Enqueue(@, d)]

\* a close that leaves the removed-flag as it is
StoreNothing(m, id) == m

\* closed.store(true, Ordering::Relaxed)
StoreRemoved(m, id) == [m EXCEPT !.ms[id].stream_removed = TRUE]

\* slots whose MuxStream is gone and that nothing refers to any more
FreeSlots(m) ==
    {i \in DOMAIN m.ms :
        /\ m.ms[i].st \in {"free", "dropped"}
        /\ \A p \in Ports : m.streams[p] # i
        /\ m.blocked.id # i}

NextSlot(m) == CHOOSE i \in FreeSlots(m) : \A j \in FreeSlots(m) : i <= j

\* u16::next_available_key: the keys it may yield for this table
NextAvailableKey(streams) == {p \in Ports : p # 0 /\ streams[p] = 0}

(***************************************************************************)
(* What a handler of the task yields: the multiplexor after it, the        *)
(* messages it sent, and how it ended ("none": the loop goes on; "Close":  *)
(* Ok(true); else the Error it returned).                                  *)
(***************************************************************************)
Res(m, out, err) == [m |-> m, out |-> out, err |-> err]

\* AfterSend that takes the end of a Fin's send for the end of a close
AfterSendClosing(m, ok, id, our, their, then) ==
    IF then = "psh"
    THEN (IF ok THEN Res(m, << >>, "none") ELSE Res(m, <<new_rst(our, their)>>, "none"))
    ELSE Res(StoreRemoved(m, id), << >>, "none")

\* the rest of a handler once its send into a receive queue completed
\* (ok) or failed (~ok)
AfterSend(m, ok, id, our, their, then) ==
    CASE then = "close" -> Res(StoreRemoved(m, id), << >>, "none")
      [] then = "psh" ->
            IF ok THEN Res(m, << >>, "none")
            ELSE Res(m, <<new_rst(our, their)>>, "none")
      [] OTHER -> Res(m, << >>, "none")

\* sender.send(d).await and what follows it; a full queue suspends the task
SendThen(m, id, d, our, their, then) ==
    CASE TrySend(m, id) = "full" ->
            Res([m EXCEPT !.blocked = Blocked("send", id, d, our, their, then)],
                << >>, "none")
      [] TrySend(m, id) = "ok" ->
            AfterSend(PutFrame(m, id, d), TRUE, id, our, their, then)
      [] OTHER -> AfterSend(m, FALSE, id, our, their, then)

\* AfterAccept with the two ports of the Ack exchanged
AfterAcceptSwapped(m, our, their, then) ==
    IF then = "ack" THEN Res(m, <<new_ack(their, our)>>, "none")
    ELSE Res(m, << >>, "none")

\* the rest of a handler once new_stream handed the stream to the accept queue
AfterAccept(m, our, their, then) ==
    IF then = "ack" THEN Res(m, <<new_ack(our, their)>>, "none")
    ELSE Res(m, << >>, "none")

\* the MuxStream a failed stream_tx.send gives back is dropped with the error
DropUnsent(m, id, our, their) ==
    [m EXCEPT !.ms[id].st = "dropped",
              !.dropped_ports = Append(@, <<our, their, FALSE>>)]

\* stream_tx.send(stream).await; a full accept queue suspends the task, one
\* whose receiver is gone fails the send
AcceptThen(m, id, our, their, then) ==
    IF m.front = "dropped"
    THEN Res(DropUnsent(m, id, our, their), << >>, "SendStreamToClient")
    ELSE IF Len(m.stream_tx) < STREAM_BUFFER_SIZE
    THEN AfterAccept([m EXCEPT !.stream_tx = Append(@, id)], our, their, then)
    ELSE Res([m EXCEPT !.blocked = Blocked("accept", id, EOF, our, their, then)],
             << >>, "none")

\* a new_stream whose MuxStream starts with fin_sent true
InsertStreamFinSent(m, id, our_port, their_port) ==
    [m EXCEPT !.streams[our_port] = id,
              !.ms[id] = [NoStream EXCEPT !.st = "queued",
                                          !.our_port = our_port,
                                          !.their_port = their_port,
                                          !.fin_sent = TRUE]]

\* a new_stream that puts every entry at the first port
InsertStreamFirstPort(m, id, our_port, their_port) ==
    [m EXCEPT !.streams[1] = id,
              !.ms[id] = [NoStream EXCEPT !.st = "queued",
                                          !.our_port = our_port,
                                          !.their_port = their_port]]

\* the part of new_stream before stream_tx.send: the entry and the MuxStream
InsertStream(m, id, our_port, their_port) ==
    [m EXCEPT !.streams[our_port] = id,
              !.ms[id] = [NoStream EXCEPT !.st = "queued",
                                          !.our_port = our_port,
                                          !.their_port = their_port]]

\* a new_stream that hands the stream over without an entry in the table
NewStreamNoEntry(m, id, our_port, their_port, then) ==
    AcceptThen([InsertStream(m, id, our_port, their_port) EXCEPT !.streams = m.streams],
               id, our_port, their_port, then)

new_stream(m, id, our_port, their_port, then) ==
    AcceptThen(InsertStream(m, id, our_port, their_port), id, our_port, their_port, then)

\* a close_port that sends its Rst whatever fin_sent says
CloseRstAlways(our_port, their_port, fin_sent) == <<new_rst(our_port, their_port)>>

\* the Rst close_port sends first
CloseRst(our_port, their_port, fin_sent) ==
    IF ~fin_sent THEN <<new_rst(our_port, their_port)>> ELSE << >>

\* a close that leaves the entry in the table
RemoveNothing(m, our_port) == m

\* the port table after close_port's remove
RemoveEntry(m, our_port) == [m EXCEPT !.streams[our_port] = 0]

close_port(m, our_port, their_port, fin_sent) ==
    LET out == CloseRst(our_port, their_port, fin_sent)
        id == m.streams[our_port]
        r == SendThen(RemoveEntry(m, our_port), id, EOF, our_port, their_port, "close")
    IN  IF id = 0 THEN Res(m, out, "none")
        ELSE Res(r.m, out \o r.out, r.err)

\* a Syn branch without the role check
SynAccepted(role) == "none"

\* an Ack branch without the role check
AckAccepted(role) == "none"

\* role checks of the Syn and Ack branches
SynError(role) == IF role = "Client" THEN "ClientReceivedSyn" ELSE "none"
AckError(role) == IF role = "Server" THEN "ServerReceivedAck" ELSE "none"

\* the Syn branch decodes the handshake with get_u8, split_to(host_len) and
\* get_u16 on the payload: each panics when the payload has too few octets left
SynDecode(data) ==
    IF \/ Len(data) < 1
       \/ Len(data) - 1 < data[1]
       \/ Len(data) - 1 - data[1] < 2
    THEN "panic" ELSE "ok"

\* the port the Ack branch creates the stream on: the frame's dport
AckPort(f) == f.dport

process_stream_frame(m, role, f, key) ==
    LET our_port == f.dport
        their_port == f.sport
        id == m.streams[our_port]
    IN  CASE f.flag = "Syn" ->
                IF SynError(role) # "none" THEN Res(m, << >>, SynError(role))
                ELSE IF SynDecode(f.data) = "panic" THEN Res(m, << >>, "panic")
                ELSE IF key = 0
                THEN Res([m EXCEPT !.blocked = Blocked("alloc", 0, EOF, 0, their_port, "-")],
                         << >>, "none")
                ELSE new_stream(m, NextSlot(m), key, their_port, "ack")
          [] f.flag = "Ack" ->
                IF AckError(role) # "none" THEN Res(m, << >>, AckError(role))
                ELSE new_stream(m, NextSlot(m), AckPort(f), their_port, "none")
          [] f.flag = "Rst" -> close_port(m, our_port, their_port, TRUE)
          [] f.flag = "Fin" ->
                IF id # 0 THEN SendThen(m, id, EOF, our_port, their_port, "fin")
                ELSE Res(m, << >>, "none")
          [] OTHER ->
                IF id # 0 THEN SendThen(m, id, f.data, our_port, their_port, "psh")
                ELSE Res(m, <<new_rst(our_port, their_port)>>, "none")

\* a Datagram branch that lets the frame go
DatagramDiscarded(m, octets) == Res(m, << >>, "none")

\* datagram_tx.send(datagram_frame).await?; a full channel suspends the task,
\* one whose receiver is gone fails the send
DatagramThen(m, octets) ==
    IF m.front = "dropped" THEN Res(m, << >>, "SendDatagram")
    ELSE IF Len(m.datagram_tx) < DATAGRAM_BUFFER_SIZE
    THEN Res([m EXCEPT !.datagram_tx = Append(@, DecodeDatagram(octets))], << >>, "none")
    ELSE Res([m EXCEPT !.blocked = Blocked("datagram", 0, octets, 0, 0, "-")], << >>, "none")

\* a Close message that does not end the loop
CloseIgnored == "none"

\* what process_message returns for a Close message
CloseResult == "Close"

\* a process_message that answers every Ping with an empty Pong
ProcessMessageEmptyPong(m, role, msg, key) ==
    CASE msg.kind = "Stream" -> process_stream_frame(m, role, msg, key)
      [] msg.kind = "Binary" ->
            IF Decodable(msg.data) THEN DatagramThen(m, msg.data)
            ELSE Res(m, << >>, "InvalidFrame")
      [] msg.kind = "Ping" -> Res(m, <<Pong(EOF)>>, "none")
      [] msg.kind = "Pong" -> Res(m, << >>, "none")
      [] msg.kind = "Close" -> Res(m, << >>, CloseResult)
      [] OTHER -> Res(m, << >>, "TextMessage")

process_message(m, role, msg, key) ==
    CASE msg.kind = "Stream" -> process_stream_frame(m, role, msg, key)
      [] msg.kind = "Binary" ->
            IF Decodable(msg.data) THEN DatagramThen(m, msg.data)
            ELSE Res(m, << >>, "InvalidFrame")
      [] msg.kind = "Ping" -> Res(m, <<Pong(msg.data)>>, "none")
      [] msg.kind = "Pong" -> Res(m, << >>, "none")
      [] msg.kind = "Close" -> Res(m, << >>, CloseResult)
      [] OTHER -> Res(m, << >>, "TextMessage")

\* task_inner returns (and task_wrapper goes on to shutdown) when a handler
\* says so: Ok(true) gives Ok(()), an error is passed on; a panic in a handler
\* unwinds through task_inner and task_wrapper, or aborts the process: the task
\* is gone and the line after task_inner(..).await is not reached
Return(r) ==
    IF r.err = "none" THEN r.m
    ELSE IF r.err = "panic" THEN [r.m EXCEPT !.task = "panicked"]
    ELSE [r.m EXCEPT !.task = "shutdown",
                     !.result = IF r.err = "Close" THEN "Ok" ELSE r.err]

\* bookkeeping of the Rst frames sent for streams their user dropped without Fin
NoteRst(m, out) ==
    [m EXCEPT !.ms = [i \in DOMAIN m.ms |->
        IF /\ m.ms[i].st = "dropped"
           /\ ~m.ms[i].fin_sent
           /\ \E k \in 1..Len(out) :
                 out[k] = new_rst(m.ms[i].our_port, m.ms[i].their_port)
        THEN [m.ms[i] EXCEPT !.rsts = Min(@ + 1, 2)]
        ELSE m.ms[i]]]

(***************************************************************************)
(* The transport.  Between two multiplexors wire[e] is a queue.  A raw     *)
(* peer reads at once: its wire shows what the last step sent to it; and   *)
(* what it sends is chosen when the task takes it.                         *)
(***************************************************************************)
RawPeer(e) == mux[e].task = "absent"

\* the number of the data payload after this one
NextSeq == IF seq = 0 THEN 0 ELSE seq + 1

Flags == {"Syn", "Ack", "Rst", "Fin", "Psh"}

\* the messages a raw peer crafts, and the next data payload on any port
Crafted ==
    {StreamFrame(s, d, f, EOF) : s \in PeerPorts, d \in Ports, f \in Flags \ {"Syn"}}
        \cup {new_syn(s, Handshake) : s \in PeerPorts}
        \cup {Ping(EOF), Pong(EOF), Close, Text}
        \cup {new_psh(s, d, <<seq>>) : s \in {x \in PeerPorts : seq <= MaxPsh}, d \in Ports}

\* the Datagram frames of the runs
Datagrams ==
    {DatagramFrame(<<127, 0, 0, 1>>, 53, 7, <<88>>), DatagramFrame(<< >>, 300, 65536, << >>)}

\* the binary messages a raw peer crafts: Datagram frames, and octets that are
\* no frame (nothing, an unknown tag, a datagram cut short)
CraftedBinary ==
    {EncodeDatagram(f) : f \in Datagrams}
        \cup {Binary(<< >>), Binary(<<3, 0, 0>>), Binary(<<2, 4, 127, 0>>)}

\* the messages message_stream.next() may yield at end e now
Incoming(e) ==
    IF RawPeer(Peer(e)) THEN Crafted
    ELSE IF wire[e] # << >> THEN {Head(wire[e])} ELSE {}

\* a data payload carries the number seq
Numbered(msg) == msg.kind = "Stream" /\ msg.flag = "Psh" /\ msg.data # EOF

\* the sink of end e can take n more messages
SinkReady(e, n) == RawPeer(Peer(e)) \/ Len(wire[Peer(e)]) + n <= MaxWire

\* the transport after end e took `taken` messages off its side and sent out
Wire(e, taken, out) ==
    [x \in Role |->
        IF x = Peer(e) THEN (IF RawPeer(x) THEN out ELSE wire[x] \o out)
        ELSE IF RawPeer(Peer(x)) THEN << >>
        ELSE SubSeq(wire[x], taken + 1, Len(wire[x]))]

(***************************************************************************)
(* The demultiplex task: task_wrapper, task_inner and shutdown.            *)
(***************************************************************************)
\* the task is in task_inner's select!, not suspended inside a handler
AtSelect(m) == m.task = "running" /\ m.blocked.kind = "none"

\* the write guard of the port table is held across an await
LockHeld(m) == m.blocked.kind = "send" \/ m.task = "shutdown"

\* no drop notification
NoDrop == <<0, 0, FALSE>>

\* the MuxStream objects that are gone for good leave their slots: dropped, out
\* of the port table, and their drop notification d taken by the task
Forget(m, d) ==
    [m EXCEPT !.ms = [i \in DOMAIN m.ms |->
        IF /\ i \in FreeSlots(m)
           /\ m.ms[i].st = "dropped"
           /\ <<m.ms[i].our_port, m.ms[i].their_port, m.ms[i].fin_sent>> = d
           /\ m.ms[i].rsts < 2
        THEN NoStream
        ELSE m.ms[i]]]

\* a send_message whose failure nobody looks at
SendIgnored(m, r, d) == r

\* send_message on a sink that takes no more messages fails: close_port (the
\* handler of a drop notification d) goes on, any other handler returns the error
SendResult(m, r, d) ==
    IF m.sink = "open" \/ r.out = << >> THEN r
    ELSE Res(r.m, << >>, IF d = NoDrop /\ r.err = "none" THEN "WebSocket" ELSE r.err)

\* a handler's effect: on the multiplexor and on the transport; the handler
\* runs once the sink can take what it sends
Transmit(e, r, taken, d) ==
    LET s == SendResult(mux[e], r, d)
    IN  /\ SinkReady(e, Len(s.out))
        /\ mux' = [mux EXCEPT ![e] = Forget(NoteRst(Return(s), s.out), d)]
        /\ wire' = Wire(e, taken, s.out)

\* the frame needs a slot for a new MuxStream
CreatesStream(e, msg) ==
    /\ msg.kind = "Stream"
    /\ \/ msg.flag = "Syn" /\ e = "Server"
       \/ msg.flag = "Ack" /\ e = "Client"

\* a drop notification branch that takes port 0 for a port like any other
DropHandlerNoSentinel(m, d) == close_port(m, d[1], d[2], d[3])

\* the body of the drop notification branch: our_port == 0 returns Ok(()),
\* any other port is closed
DropHandler(m, d) ==
    IF d[1] = 0 THEN Res(m, << >>, "Close")
    ELSE close_port(m, d[1], d[2], d[3])

\* select! branch: Some((our_port, their_port, fin_sent)) = dropped_ports_rx.recv()
TaskDropped(e) ==
    LET m == mux[e]
        d == Head(m.dropped_ports)
        m1 == [m EXCEPT !.dropped_ports = Tail(@)]
    IN  /\ AtSelect(m)
        /\ m.dropped_ports # << >>
        /\ Transmit(e, DropHandler(m1, d), 0, d)
        /\ UNCHANGED <<seq, request, remote>>

\* select! branch: Some(msg) = message_stream.next()
TaskMessage(e) ==
    LET m == mux[e]
        keys == NextAvailableKey(m.streams)
    IN  /\ AtSelect(m)
        /\ \E msg \in Incoming(e) :
              /\ CreatesStream(e, msg) => FreeSlots(m) # {}
              /\ \E key \in (IF keys = {} THEN {0} ELSE keys) :
                    Transmit(e, process_message(m, e, msg, key), 1, NoDrop)
              /\ seq' = IF RawPeer(Peer(e)) /\ Numbered(msg) THEN NextSeq ELSE seq
              /\ UNCHANGED <<request, remote>>

\* select! branch: Some(msg) = message_stream.next(), msg a binary message of a
\* raw peer
TaskBinary(e) ==
    LET m == mux[e]
    IN  /\ AtSelect(m)
        /\ RawPeer(Peer(e))
        /\ \E msg \in CraftedBinary : Transmit(e, process_message(m, e, msg, 0), 1, NoDrop)
        /\ UNCHANGED <<seq, request, remote>>

\* the Syn frames with a handshake cut short a raw peer crafts: no payload, a
\* host length larger than what follows, no destination port
CraftedSyn ==
    {new_syn(s, data) : s \in PeerPorts, data \in {<< >>, <<2, 0>>, <<1, 0>>, <<0, 0>>}}

\* select! branch: Some(msg) = message_stream.next(), msg a Syn of a raw peer
\* with a handshake cut short
TaskSyn(e) ==
    LET m == mux[e]
    IN  /\ AtSelect(m)
        /\ RawPeer(Peer(e))
        /\ \E msg \in CraftedSyn : Transmit(e, process_message(m, e, msg, 0), 1, NoDrop)
        /\ UNCHANGED <<seq, request, remote>>

\* select! branch: Some(msg) = message_stream.next(), msg an Err: let msg = msg?
TaskReadError(e) ==
    LET m == mux[e]
    IN  /\ AtSelect(m)
        /\ RawPeer(Peer(e))
        /\ Transmit(e, Res(m, << >>, "WebSocket"), 0, NoDrop)
        /\ UNCHANGED <<seq, request, remote>>

\* a keepalive branch whose tick completes with or without an interval
KeepaliveAlways(e) ==
    LET m == mux[e]
    IN  /\ AtSelect(m)
        /\ Transmit(e, Res(m, <<Ping(EOF)>>, "none"), 0, NoDrop)
        /\ UNCHANGED <<seq, request, remote>>

\* select! branch: _ = keepalive_interval.tick(); with no interval the tick
\* never completes
KeepaliveTick(e) ==
    LET m == mux[e]
    IN  /\ AtSelect(m)
        /\ m.keepalive_interval = "Some"
        /\ Transmit(e, Res(m, <<Ping(EOF)>>, "none"), 0, NoDrop)
        /\ UNCHANGED <<seq, request, remote>>

\* the transport stops taking messages: every later write to the sink fails
TransportFail(e) ==
    /\ mux[e].task \in {"running", "shutdown"}
    /\ mux[e].sink = "open"
    /\ mux' = [mux EXCEPT ![e].sink = "failed"]
    /\ wire' = Wire(e, 0, << >>)
    /\ UNCHANGED <<seq, request, remote>>

\* a suspended send into a receive queue or into the accept queue completes
TaskResume(e) ==
    LET m == mux[e]
        b == m.blocked
        m1 == [m EXCEPT !.blocked = NotBlocked]
    IN  /\ m.task = "running"
        /\ \/ /\ b.kind = "send"
              /\ TrySend(m, b.id) # "full"
              /\ Transmit(e, SendThen(m1, b.id, b.data, b.our, b.their, b.then), 0, NoDrop)
           \/ /\ b.kind = "accept"
              /\ Len(m.stream_tx) < STREAM_BUFFER_SIZE \/ m.front = "dropped"
              /\ Transmit(e, AcceptThen(m1, b.id, b.our, b.their, b.then), 0, NoDrop)
           \/ /\ b.kind = "datagram"
              /\ Len(m.datagram_tx) < DATAGRAM_BUFFER_SIZE \/ m.front = "dropped"
              /\ Transmit(e, DatagramThen(m1, b.data), 0, NoDrop)
        /\ UNCHANGED <<seq, request, remote>>

\* one entry of shutdown's drain: EOF to its queue, its removed-flag set
ShutdownEntry(m, p) ==
    LET id == m.streams[p]
        m1 == RemoveEntry(m, p)
    IN  StoreRemoved(IF TrySend(m, id) = "ok" THEN PutFrame(m1, id, EOF) ELSE m1, id)

\* shutdown: for (_, (sender, closed)) in streams.drain(), one entry after the
\* other in the order the table yields them; the send into a full queue
\* suspends shutdown at that entry until the queue has room
Shutdown(e) ==
    LET m == mux[e]
        b == m.blocked
    IN  /\ m.task = "shutdown"
        /\ \/ /\ b.kind = "none"
              /\ \E p \in Ports :
                    /\ m.streams[p] # 0
                    /\ mux' = [mux EXCEPT ![e] =
                          IF TrySend(m, m.streams[p]) # "full" THEN ShutdownEntry(m, p)
                          ELSE [m EXCEPT !.blocked =
                                   Blocked("drain", m.streams[p], EOF, p, 0, "-")]]
           \/ /\ b.kind = "drain"
              /\ TrySend(m, b.id) # "full"
              /\ mux' = [mux EXCEPT ![e] =
                    ShutdownEntry([m EXCEPT !.blocked = NotBlocked], b.our)]
        /\ wire' = Wire(e, 0, << >>)
        /\ UNCHANGED <<seq, request, remote>>

\* shutdown: poll_close on the sink once the table is drained
ShutdownClose(e) ==
    LET m == mux[e]
    IN  /\ m.task = "shutdown"
        /\ \A p \in Ports : m.streams[p] = 0
        /\ SinkReady(e, 1)
        /\ mux' = [mux EXCEPT ![e].task = "exited"]
        /\ wire' = Wire(e, 0, <<Close>>)
        /\ UNCHANGED <<seq, request, remote>>

(***************************************************************************)
(* The front end and the virtual streams, as their users drive them.       *)
(***************************************************************************)
\* client_new_stream_channel up to its wait for the stream; a call is made
\* when the end has room for the stream the call is to return
ClientNewStreamChannel(e) ==
    LET m == mux[e]
    IN  /\ e = "Client"
        /\ m.task = "running"
        /\ ~LockHeld(m)
        /\ Len(m.pending) < MaxPending
        /\ Len(m.pending) < Cardinality(FreeSlots(m))
        /\ SinkReady(e, 1)
        /\ \E p \in NextAvailableKey(m.streams) :
              /\ mux' = [mux EXCEPT ![e].pending = Append(@, p)]
              /\ wire' = Wire(e, 0, <<new_syn(p, Handshake)>>)
        /\ UNCHANGED <<seq, request, remote>>

Live(e) == {i \in DOMAIN mux[e].ms : mux[e].ms[i].st = "live"}

\* the drop notifications of the streams still in the accept queue q
Unaccepted(m, q) ==
    [k \in 1..Len(q) |-> <<m.ms[q[k]].our_port, m.ms[q[k]].their_port, m.ms[q[k]].fin_sent>>]

\* Drop for Multiplexor: the sentinel (0, _, _) to the drop-notify channel; the
\* receivers of the accept queue and of the datagram channel go with it, and
\* so do the streams nobody accepted
FrontDrop(e) ==
    LET m == mux[e]
        q == m.stream_tx
    IN  /\ m.task # "absent"
        /\ m.front = "held"
        /\ m.pending = << >>
        /\ mux' = [mux EXCEPT ![e] =
              [m EXCEPT !.front = "dropped",
                        !.stream_tx = << >>,
                        !.datagram_tx = << >>,
                        !.ms = [i \in DOMAIN m.ms |->
                                  IF \E k \in 1..Len(q) : q[k] = i
                                  THEN [m.ms[i] EXCEPT !.st = "dropped"]
                                  ELSE m.ms[i]],
                        !.dropped_ports = (@ \o <<NoDrop>>) \o Unaccepted(m, q)]]
        /\ wire' = Wire(e, 0, << >>)
        /\ UNCHANGED <<seq, request, remote>>

\* Multiplexor::recv_datagram: the oldest frame of the datagram channel
RecvDatagram(e) ==
    LET m == mux[e]
    IN  /\ m.task # "absent"
        /\ m.front = "held"
        /\ m.datagram_tx # << >>
        /\ mux' = [mux EXCEPT ![e].datagram_tx = Tail(@)]
        /\ wire' = Wire(e, 0, << >>)
        /\ UNCHANGED <<seq, request, remote>>

\* Multiplexor::send_datagram: the frame, encoded, to the sink
SendDatagram(e) ==
    LET m == mux[e]
    IN  /\ m.task = "running"
        /\ m.front = "held"
        /\ m.sink = "open"
        /\ SinkReady(e, 1)
        /\ \E f \in Datagrams : wire' = Wire(e, 0, <<EncodeDatagram(f)>>)
        /\ UNCHANGED <<mux, seq, request, remote>>

\* the accept queue hands its oldest stream to the user
TakeStream(m) ==
    [m EXCEPT !.ms[Head(m.stream_tx)].st = "live", !.stream_tx = Tail(@)]

\* the calls in flight without the k-th
Without(q, k) == SubSeq(q, 1, k - 1) \o SubSeq(q, k + 1, Len(q))

\* client_new_stream_channel returns: one of the calls in flight takes the
\* oldest stream of the accept queue, the only place new_stream hands streams to
ClientReturn(e) ==
    LET m == mux[e]
    IN  /\ e = "Client"
        /\ m.task # "absent"
        /\ m.stream_tx # << >>
        /\ Cardinality(Live(e)) < MaxLive
        /\ \E k \in 1..Len(m.pending) :
              mux' = [mux EXCEPT ![e] = [TakeStream(m) EXCEPT !.pending = Without(@, k)]]
        /\ wire' = Wire(e, 0, << >>)
        /\ UNCHANGED <<seq, request, remote>>

\* server_new_stream_channel
ServerNewStreamChannel(e) ==
    LET m == mux[e]
    IN  /\ e = "Server"
        /\ m.task # "absent"
        /\ m.stream_tx # << >>
        /\ Cardinality(Live(e)) < MaxLive
        /\ mux' = [mux EXCEPT ![e] = TakeStream(m)]
        /\ wire' = Wire(e, 0, << >>)
        /\ UNCHANGED <<seq, request, remote>>

\* the frames a write of data sends: none once the removed-flag is set (the
\* write fails with BrokenPipe) or fin_sent is true, else one Psh
WriteFrames(s, data) ==
    IF s.stream_removed \/ s.fin_sent THEN << >>
    ELSE <<new_psh(s.our_port, s.their_port, data)>>

\* MuxStream::poll_write
StreamWrite(e, i) ==
    LET s == mux[e].ms[i]
    IN  /\ i \in Live(e)
        /\ seq <= MaxPsh
        /\ SinkReady(e, 1)
        /\ wire' = Wire(e, 0, WriteFrames(s, <<seq>>))
        /\ seq' = IF WriteFrames(s, <<seq>>) = << >> THEN seq ELSE NextSeq
        /\ UNCHANGED <<request, remote>>
        /\ UNCHANGED mux

\* the frames a shutdown of the write half sends: one Fin, the first time
ShutdownFrames(s) ==
    IF s.fin_sent THEN << >> ELSE <<new_fin(s.our_port, s.their_port)>>

\* MuxStream::poll_shutdown: one Fin, then fin_sent
StreamShutdown(e, i) ==
    LET s == mux[e].ms[i]
    IN  /\ i \in Live(e)
        /\ SinkReady(e, 1)
        /\ mux' = [mux EXCEPT ![e].ms[i].fin_sent = TRUE]
        /\ wire' = Wire(e, 0, ShutdownFrames(s))
        /\ UNCHANGED <<seq, request, remote>>

\* what a read of the stream does to it: it takes the oldest frame of the queue
\* (last: the number of the last data payload the reader got; eofs: how many
\* empty payloads it got, counted up to two)
ReadFrame(s) ==
    IF Head(s.frame_rx) = EOF
    THEN [s EXCEPT !.frame_rx = Tail(@), !.eofs = Min(@ + 1, 2)]
    ELSE [s EXCEPT !.frame_rx = Tail(@), !.last = Head(s.frame_rx)[1]]

\* MuxStream::poll_read
StreamRead(e, i) ==
    LET s == mux[e].ms[i]
    IN  /\ i \in Live(e)
        /\ s.frame_rx # << >>
        /\ mux' = [mux EXCEPT ![e].ms[i] = ReadFrame(s)]
        /\ wire' = Wire(e, 0, << >>)
        /\ UNCHANGED <<seq, request, remote>>

\* Drop for MuxStream: (our_port, their_port, fin_sent) to the drop-notify channel
StreamDrop(e, i) ==
    LET s == mux[e].ms[i]
    IN  /\ i \in Live(e)
        /\ Len(mux[e].dropped_ports) < MaxDropped
        /\ mux' = [mux EXCEPT ![e].ms[i] = [s EXCEPT !.st = "dropped", !.frame_rx = << >>,
                                                      !.last = 0, !.eofs = 0],
                              ![e].dropped_ports =
                                  Append(@, <<s.our_port, s.their_port, s.fin_sent>>)]
        /\ wire' = Wire(e, 0, << >>)
        /\ UNCHANGED <<seq, request, remote>>

(***************************************************************************)
(* Specifications.                                                         *)
(*   Spec      one multiplexor, of either role, facing a raw peer; one     *)
(*             stream at a time                                            *)
(*   SpecMany  a server-role multiplexor facing a raw peer; MaxStreams     *)
(*             streams at a time                                           *)
(*   SpecPair  a client and a server multiplexor on one transport, one     *)
(*             stream at a time at each end, with fair scheduling          *)
(*   SpecData  as Spec, the data payloads numbered in the order sent       *)
(***************************************************************************)
Init ==
    /\ \E r \in Role : mux = [e \in Role |-> NewMux(IF e = r THEN "running" ELSE "absent", 1)]
    /\ wire = [e \in Role |-> << >>]
    /\ seq = 0
    /\ request = NoRequest
    /\ remote = NoRemote

InitData ==
    /\ \E r \in Role : mux = [e \in Role |-> NewMux(IF e = r THEN "running" ELSE "absent", 1)]
    /\ wire = [e \in Role |-> << >>]
    /\ seq = 1
    /\ request = NoRequest
    /\ remote = NoRemote

\* a server-role multiplexor that can hold MaxStreams streams at a time
InitMany ==
    /\ mux = [e \in Role |-> NewMux(IF e = "Server" THEN "running" ELSE "absent", MaxStreams)]
    /\ wire = [e \in Role |-> << >>]
    /\ seq = 0
    /\ request = NoRequest
    /\ remote = NoRemote

InitPair ==
    /\ mux = [e \in Role |-> NewMux("running", 1)]
    /\ wire = [e \in Role |-> << >>]
    /\ seq = 0
    /\ request = NoRequest
    /\ remote = NoRemote

Task(e) ==
    \/ TaskDropped(e)
    \/ TaskMessage(e)
    \/ TaskResume(e)

\* what the user of a stream does with it
StreamUser(e) ==
    \E i \in 1..MaxStreams :
        \/ StreamWrite(e, i)
        \/ StreamShutdown(e, i)
        \/ StreamRead(e, i)
        \/ StreamDrop(e, i)

User(e) ==
    \/ ClientNewStreamChannel(e)
    \/ ClientReturn(e)
    \/ ServerNewStreamChannel(e)
    \/ StreamUser(e)

Next ==
    \E e \in Role :
        \/ Task(e)
        \/ Shutdown(e)
        \/ ShutdownClose(e)
        \/ User(e)

\* a server-role multiplexor and its users
NextMany ==
    \E e \in Role :
        \/ Task(e)
        \/ Shutdown(e)
        \/ ShutdownClose(e)
        \/ ServerNewStreamChannel(e)
        \/ StreamUser(e)

\* two multiplexors whose users open streams and drop them: no write, so no
\* full queue
NextPair ==
    \E e \in Role :
        \/ TaskDropped(e)
        \/ TaskMessage(e)
        \/ ClientNewStreamChannel(e)
        \/ ClientReturn(e)
        \/ ServerNewStreamChannel(e)
        \/ \E i \in 1..MaxStreams : StreamDrop(e, i)

\* each ready branch of select! is taken in the end, and so is each call that
\* waits on the accept queue
FairPair ==
    /\ \A e \in Role : WF_vars(TaskDropped(e)) /\ WF_vars(TaskMessage(e))
    /\ WF_vars(ClientReturn("Client"))
    /\ WF_vars(ServerNewStreamChannel("Server"))

\* the receiving side only: the task, the accept calls, reads and drops
NextData ==
    \E e \in Role :
        \/ Task(e)
        \/ ClientNewStreamChannel(e)
        \/ ClientReturn(e)
        \/ ServerNewStreamChannel(e)
        \/ \E i \in 1..MaxStreams : StreamRead(e, i) \/ StreamDrop(e, i)

\* a multiplexor of either role, facing a raw peer, a transport that can fail
\* and a front end that can be dropped; its streams are read and dropped
NextErr ==
    \E e \in Role :
        \/ Task(e)
        \/ TaskBinary(e)
        \/ TaskReadError(e)
        \/ TransportFail(e)
        \/ Shutdown(e)
        \/ ShutdownClose(e)
        \/ ClientNewStreamChannel(e)
        \/ ClientReturn(e)
        \/ ServerNewStreamChannel(e)
        \/ (\E i \in 1..MaxStreams : StreamRead(e, i) \/ StreamDrop(e, i))
        \/ FrontDrop(e)
        \/ RecvDatagram(e)

Spec == Init /\ [][Next]_vars

\* what it takes for shutdown to run to its end: the task, shutdown, the accept
\* calls, and readers that read when they like
NextStop ==
    \E e \in Role :
        \/ TaskMessage(e)
        \/ TaskResume(e)
        \/ Shutdown(e)
        \/ ShutdownClose(e)
        \/ ServerNewStreamChannel(e)
        \/ \E i \in 1..MaxStreams : StreamRead(e, i)

\* the task and shutdown go on whenever they can
FairStop ==
    \A e \in Role :
        /\ WF_vars(TaskResume(e))
        /\ WF_vars(Shutdown(e))
        /\ WF_vars(ShutdownClose(e))

SpecStop == InitMany /\ [][NextStop]_vars /\ FairStop

\* a client and a server multiplexor, MaxStreams streams at a time at each end,
\* and client calls in flight at the same time
InitCalls ==
    /\ mux = [e \in Role |-> NewMux("running", MaxStreams)]
    /\ wire = [e \in Role |-> << >>]
    /\ seq = 0
    /\ request = NoRequest
    /\ remote = NoRemote

NextCalls ==
    \E e \in Role :
        \/ TaskMessage(e)
        \/ ClientNewStreamChannel(e)
        \/ ClientReturn(e)
        \/ ServerNewStreamChannel(e)

SpecCalls == InitCalls /\ [][NextCalls]_vars

\* a server-role multiplexor that can hold one stream more than it has ports
\* to give out
InitAlloc ==
    /\ mux = [e \in Role |->
                 NewMux(IF e = "Server" THEN "running" ELSE "absent", MaxPort + 1)]
    /\ wire = [e \in Role |-> << >>]
    /\ seq = 0
    /\ request = NoRequest
    /\ remote = NoRemote

\* the task and the accept calls: every stream accepted stays open
NextAlloc ==
    \E e \in Role :
        \/ TaskMessage(e)
        \/ TaskResume(e)
        \/ ServerNewStreamChannel(e)

SpecAlloc == InitAlloc /\ [][NextAlloc]_vars

\* a multiplexor of either role, built with or without a keepalive interval
InitKeep ==
    /\ \E r \in Role, k \in {"None", "Some"} :
          mux = [e \in Role |->
                    IF e = r THEN [NewMux("running", 1) EXCEPT !.keepalive_interval = k]
                    ELSE NewMux("absent", 1)]
    /\ wire = [e \in Role |-> << >>]
    /\ seq = 0
    /\ request = NoRequest
    /\ remote = NoRemote

NextKeep ==
    \E e \in Role :
        \/ Task(e)
        \/ KeepaliveTick(e)
        \/ TransportFail(e)
        \/ Shutdown(e)
        \/ ShutdownClose(e)
        \/ User(e)

SpecKeep == InitKeep /\ [][NextKeep]_vars

\* a client and a server multiplexor whose users send and receive datagrams
\* while one stream carries data each way
NextGram ==
    \E e \in Role :
        \/ TaskMessage(e)
        \/ TaskResume(e)
        \/ SendDatagram(e)
        \/ RecvDatagram(e)
        \/ ClientNewStreamChannel(e)
        \/ ClientReturn(e)
        \/ ServerNewStreamChannel(e)
        \/ \E i \in 1..MaxStreams : StreamWrite(e, i) \/ StreamRead(e, i)

SpecGram == InitPair /\ [][NextGram]_vars

\* a client-role multiplexor that can hold MaxStreams streams at a time, facing
\* a raw peer
InitAcks ==
    /\ mux = [e \in Role |-> NewMux(IF e = "Client" THEN "running" ELSE "absent", MaxStreams)]
    /\ wire = [e \in Role |-> << >>]
    /\ seq = 0
    /\ request = NoRequest
    /\ remote = NoRemote

\* the task, the client's calls and the readers of its streams
NextAcks ==
    \E e \in Role :
        \/ TaskMessage(e)
        \/ TaskResume(e)
        \/ ClientNewStreamChannel(e)
        \/ ClientReturn(e)
        \/ \E i \in 1..MaxStreams : StreamRead(e, i)

SpecAcks == InitAcks /\ [][NextAcks]_vars

\* as Next, with a raw peer that also sends Syn frames cut short
NextSyn ==
    \E e \in Role :
        \/ Task(e)
        \/ TaskSyn(e)
        \/ Shutdown(e)
        \/ ShutdownClose(e)
        \/ User(e)

SpecSyn == Init /\ [][NextSyn]_vars

SpecErr == Init /\ [][NextErr]_vars

SpecMany == InitMany /\ [][NextMany]_vars

SpecPair == InitPair /\ [][NextPair]_vars /\ FairPair

SpecData == InitData /\ [][NextData]_vars

(***************************************************************************)
(* The server's HTTP routes: server_main and ws_filter.                    *)
(***************************************************************************)
\* the value sec-websocket-protocol must have
PROTOCOL_VERSION == "penguin"

\* what a header of a request may hold: nothing, or one of two values
ProtocolHeaders == {"none", PROTOCOL_VERSION, "other"}
PskHeaders == {"none", "key", "wrong"}

\* the requests a server may get, with the arguments the server was started
\* with (ws_psk, obfs, backend): upgrade says whether the request is a
\* WebSocket handshake, which warp::ws() asks for
Requests ==
    [path : {"ws", "health", "version", "other"},
     upgrade : BOOLEAN,
     protocol : ProtocolHeaders,
     psk : PskHeaders,
     ws_psk : {"none", "key"},
     obfs : BOOLEAN,
     backend : {"none", "some"},
     at : {"ws_upgrader"},
     response : {"none"},
     handled : {FALSE}]

\* a match that lets a client without PSK in
PskCheckLax(psk, predefined_ws_psk) ==
    IF predefined_ws_psk = "none" \/ psk = "none" THEN "Ok"
    ELSE IF psk = predefined_ws_psk THEN "Ok"
    ELSE "not_found"

\* match (psk, predefined_ws_psk): Ok(ws) or Err(warp::reject::not_found())
PskCheck(psk, predefined_ws_psk) ==
    IF predefined_ws_psk = "none" THEN "Ok"
    ELSE IF psk = "none" THEN "not_found"
    ELSE IF psk = predefined_ws_psk THEN "Ok"
    ELSE "not_found"

\* ws_filter: warp::ws(), then the exact protocol header, then the optional
\* PSK header and its check; "Ok" or the rejection
ws_filter(r) ==
    IF ~r.upgrade THEN "not_upgrade"
    ELSE IF r.protocol = "none" THEN "missing_header"
    ELSE IF r.protocol # PROTOCOL_VERSION THEN "invalid_header"
    ELSE PskCheck(r.psk, r.ws_psk)

\* the filter tried after filter f rejected: routes = ws_upgrader.or(health)
\* .or(version).or(backend).or(not_found)
OrElse(f) ==
    CASE f = "ws_upgrader" -> "health"
      [] f = "health" -> "version"
      [] f = "version" -> "backend"
      [] OTHER -> "not_found"

\* the filter at r.at replies
Reply(r, response) == [r EXCEPT !.at = "done", !.response = response]

\* the filter at r.at rejects: the next one of the chain is tried
Reject(r) == [r EXCEPT !.at = OrElse(r.at)]

\* ws_upgrader: path "ws", nothing after it, and ws_filter; the reply is the
\* upgrade
WsUpgrader ==
    /\ request.at = "ws_upgrader"
    /\ request' = IF request.path = "ws" /\ ws_filter(request) = "Ok"
                  THEN Reply(request, "upgrade")
                  ELSE Reject(request)
    /\ UNCHANGED <<mux, wire, seq, remote>>

\* on_upgrade: handle_websocket(ws) once the upgrade completes
HandleWebsocket ==
    /\ request.at = "done"
    /\ request.response = "upgrade"
    /\ ~request.handled
    /\ request' = [request EXCEPT !.handled = TRUE]
    /\ UNCHANGED <<mux, wire, seq, remote>>

\* health: "OK" unless obfuscating
Health ==
    /\ request.at = "health"
    /\ request' = IF request.path = "health" /\ ~request.obfs
                  THEN Reply(request, "OK")
                  ELSE Reject(request)
    /\ UNCHANGED <<mux, wire, seq, remote>>

\* version: the package version unless obfuscating
Version ==
    /\ request.at = "version"
    /\ request' = IF request.path = "version" /\ ~request.obfs
                  THEN Reply(request, "CARGO_PKG_VERSION")
                  ELSE Reject(request)
    /\ UNCHANGED <<mux, wire, seq, remote>>

\* backend: if there is a backend, the request is passed through to it and
\* the reply is the backend's
Backend ==
    /\ request.at = "backend"
    /\ request' = IF request.backend = "some"
                  THEN Reply(request, "backend")
                  ELSE Reject(request)
    /\ UNCHANGED <<mux, wire, seq, remote>>

\* not_found: the catch-all reply, not_found_resp with status 404
NotFound ==
    /\ request.at = "not_found"
    /\ request' = Reply(request, "NOT_FOUND")
    /\ UNCHANGED <<mux, wire, seq, remote>>

\* a server with its arguments and one request to route
InitServer ==
    /\ mux = [e \in Role |-> NewMux("absent", 1)]
    /\ wire = [e \in Role |-> << >>]
    /\ seq = 0
    /\ request \in Requests
    /\ remote = NoRemote

NextServer ==
    \/ WsUpgrader
    \/ HandleWebsocket
    \/ Health
    \/ Version
    \/ Backend
    \/ NotFound

SpecServer == InitServer /\ [][NextServer]_vars

(***************************************************************************)
(* The client's local adapters: handle_remote.                             *)
(***************************************************************************)
\* the arms of handle_remote's match on (local_addr, remote_addr, protocol)
Adapters == {"tcp", "udp", "stdio_tcp", "stdio_udp", "socks", "stdio_socks"}

\* how an awaited operation ends: Ok, an error retryable_errors accepts, or
\* any other error
Outcomes22 == {"ok", "retryable", "fatal"}

\* the first operation of each arm
FirstOp(kind) ==
    CASE kind \in {"tcp", "udp", "socks"} -> "bind"
      [] kind \in {"stdio_tcp", "stdio_udp"} -> "request_channel"
      [] OTHER -> "handle_socks_connection"

\* the first operation of the body of the arm's outer loop
LoopHead(kind) ==
    IF kind \in {"tcp", "socks"} THEN "accept" ELSE "request_channel"

\* a handle_remote task about to run its arm (command_rx: whether the main
\* loop still holds the receiving end of the command channel; turn: whether
\* the loop went round by `continue` an even or an odd number of times)
NewRemote(kind) ==
    [kind |-> kind, pc |-> FirstOp(kind), result |-> "none", accepted |-> 0,
     spawned |-> 0, command_rx |-> "open", turn |-> 0, last |-> [op |-> "none", outcome |-> "ok", by |-> "loop", log |-> "none"]]

\* the step taken: operation op ended with outcome o, logged as log, and the
\* task goes on at pc
Step(r, op, o, log, pc) ==
    [r EXCEPT !.pc = pc,
              !.last = [op |-> op, outcome |-> o, by |-> "loop", log |-> log]]

\* return Err(err.into()) / Ok(..)
ReturnErr(r, op) == [r EXCEPT !.pc = "returned", !.result = <<"Err", op>>]

ReturnOk(r) == [r EXCEPT !.pc = "returned", !.result = <<"Ok">>]

\* warn!("{err}"); continue
Continue(r, op, o, head) == [Step(r, op, o, "warn", head) EXCEPT !.turn = 1 - @]

\* expr.await?
Try(r, op, o, next) ==
    IF o = "ok" THEN Step(r, op, o, "none", next)
    ELSE ReturnErr(Step(r, op, o, "none", "returned"), op)

\* complete_or_continue!: Ok(v) => v, Err(err) => { warn!; continue }
complete_or_continue(r, op, o, next, head) ==
    IF o = "ok" THEN Step(r, op, o, "none", next)
    ELSE Continue(r, op, o, head)

\* complete_or_continue_if_retryable!: Ok(v) => v, a retryable error => {
\* warn!; continue }, any other => { error!("Giving up"); return Err }
complete_or_continue_if_retryable(r, op, o, next, head) ==
    IF o = "ok" THEN Step(r, op, o, "none", next)
    ELSE IF o = "retryable" THEN Continue(r, op, o, head)
    ELSE ReturnErr(Step(r, op, o, "error", "returned"), op)

\* tokio::spawn(..): one more task that handle_remote does not wait for
Spawn(r) == [r EXCEPT !.spawned = Min(@ + 1, MaxSpawned)]

\* the next connection of the outer loop
Again(r) == [r EXCEPT !.accepted = Min(@ + 1, MaxConn)]

\* one awaited operation of handle_remote, ending with outcome o
RemoteOp(r, o) ==
    LET k == r.kind
        head == LoopHead(k)
    IN  CASE r.pc = "bind" ->
                IF k = "udp"
                THEN (IF o = "ok" THEN ReturnOk(Spawn(Step(r, "bind", o, "none", "returned")))
                      ELSE Try(r, "bind", o, "returned"))
                ELSE Try(r, "bind", o, "accept")
          [] r.pc = "accept" ->
                IF k = "socks"
                THEN (IF o = "ok" THEN Again(Spawn(Step(r, "accept", o, "none", "accept")))
                      ELSE Try(r, "accept", o, "accept"))
                ELSE Try(Again(r), "accept", o, "request_channel")
          [] r.pc = "request_channel" ->
                IF k = "tcp"
                THEN (IF o = "ok"
                      THEN Spawn(Step(r, "request_channel", o, "none", head))
                      ELSE complete_or_continue(r, "request_channel", o, head, head))
                ELSE complete_or_continue(Again(r), "request_channel", o, "handshake", head)
          [] r.pc = "handshake" ->
                IF k = "stdio_tcp"
                THEN complete_or_continue(r, "handshake", o, "pipe", head)
                ELSE IF o = "ok" THEN Spawn(Step(r, "handshake", o, "none", "read_line"))
                ELSE complete_or_continue(r, "handshake", o, "read_line", head)
          [] r.pc = "pipe" ->
                complete_or_continue_if_retryable(r, "pipe", o, head, head)
          [] r.pc = "read_line" ->
                complete_or_continue_if_retryable(r, "read_line", o, "write_u32", "read_line")
          [] r.pc = "write_u32" ->
                complete_or_continue_if_retryable(r, "write_u32", o, "write_all", "read_line")
          [] r.pc = "write_all" ->
                complete_or_continue_if_retryable(r, "write_all", o, "read_line", "read_line")
          [] OTHER ->
                IF o = "ok" THEN ReturnOk(Step(r, "handle_socks_connection", o, "none", "returned"))
                ELSE Try(r, "handle_socks_connection", o, "returned")

\* request_channel on a command channel whose receiver is gone:
\* command_tx.send(tx).await? fails, at once and every time
RequestFails(r) == r.pc = "request_channel" /\ r.command_rx = "closed"

\* handle_remote goes on by one awaited operation
HandleRemote ==
    /\ remote.pc \notin {"idle", "returned"}
    /\ \/ remote.accepted < MaxConn
       \/ remote.pc # LoopHead(remote.kind)
       \/ RequestFails(remote)
    /\ \E o \in Outcomes22 :
          /\ RequestFails(remote) => o = "fatal"
          /\ remote' = RemoteOp(remote, o)
    /\ UNCHANGED <<mux, wire, seq, request>>

\* a task that handle_remote spawned ends, its connection piped or failed:
\* nobody awaits its JoinHandle
SpawnedEnds ==
    /\ remote.pc # "idle"
    /\ remote.spawned > 0
    /\ \E o \in Outcomes22 :
          remote' = [remote EXCEPT !.spawned = @ - 1,
                        !.last = [op |-> "pipe", outcome |-> o, by |-> "spawned", log |-> "none"]]
    /\ UNCHANGED <<mux, wire, seq, request>>

\* a client that spawned handle_remote for one remote
InitRemote ==
    /\ mux = [e \in Role |-> NewMux("absent", 1)]
    /\ wire = [e \in Role |-> << >>]
    /\ seq = 0
    /\ request = NoRequest
    /\ \E kind \in Adapters : remote = NewRemote(kind)

\* the client's main loop ends and drops the receiver of the command channel
CommandClosed ==
    /\ remote.pc \notin {"idle", "returned"}
    /\ remote.command_rx = "open"
    /\ remote' = [remote EXCEPT !.command_rx = "closed"]
    /\ UNCHANGED <<mux, wire, seq, request>>

NextRemote == HandleRemote \/ SpawnedEnds

\* the adapters of a client whose command channel may close; handle_remote is
\* a task of its own and goes on whenever it can
NextClosed == HandleRemote \/ SpawnedEnds \/ CommandClosed

SpecClosed == InitRemote /\ [][NextClosed]_vars /\ WF_vars(HandleRemote)

SpecRemote == InitRemote /\ [][NextRemote]_vars

(***************************************************************************)
(* Properties.                                                             *)
(***************************************************************************)
\* the streams in the hands of the users of end e
LiveStreams(e) == {mux[e].ms[i] : i \in Live(e)}

\* the Syn of a client call on port p is on its way to a server end that has
\* room for one more stream
SynInFlight(p) ==
    /\ \E k \in 1..Len(wire["Server"]) : wire["Server"][k] = new_syn(p, Handshake)
    /\ FreeSlots(mux["Server"]) # {}

\* the two streams of one handshake name each other's ports
PortsMatch ==
    \A c \in LiveStreams("Client"), s \in LiveStreams("Server") :
        s.their_port = c.our_port /\ c.their_port = s.our_port

\* C1: between a client and a server multiplexor, a client_new_stream_channel
\* call whose Syn is sent ends with a stream on the port it took, the server's
\* server_new_stream_channel yields a stream for it, and the server stream's
\* their_port is the client stream's our_port and the other way round.
C1_HandshakeCompletes ==
    /\ []PortsMatch
    /\ \A p \in 1..MaxPort :
          /\ SynInFlight(p) ~> (\E c \in LiveStreams("Client") : c.our_port = p)
          /\ SynInFlight(p) ~> (\E s \in LiveStreams("Server") : s.their_port = p)

\* both ends hold the stream of one handshake, on different port numbers
C1_Connected ==
    \E c \in LiveStreams("Client"), s \in LiveStreams("Server") :
        /\ s.their_port = c.our_port
        /\ c.their_port = s.our_port
        /\ c.our_port # s.our_port

\* C2: for a stream its user dropped while fin_sent was false, the multiplexor
\* sends Rst(our_port, their_port) once over the run, and not a second time,
\* whatever frames for that port come in between the drop and the task's
\* handling of the drop notification.
C2_RstOnce ==
    \A e \in Role : \A i \in DOMAIN mux[e].ms :
        (mux[e].ms[i].st = "dropped" /\ ~mux[e].ms[i].fin_sent) => mux[e].ms[i].rsts <= 1

\* the numbers of the data payloads in a receive queue, oldest first
Numbers(q) == SelectSeq(q, LAMBDA d : d # EOF)

\* what stream i of end e still has to hand to its reader, oldest first: its
\* queue, then the payload the suspended task holds for it
Outstanding(e, i) ==
    LET b == mux[e].blocked
    IN  Numbers(mux[e].ms[i].frame_rx \o
                (IF b.kind = "send" /\ b.id = i THEN <<b.data>> ELSE << >>))

\* the reader got, and will get, the payloads in the order they were sent
InOrder ==
    \A e \in Role : \A i \in DOMAIN mux[e].ms :
        LET q == Outstanding(e, i)
        IN  /\ \A k \in 1..Len(q) : mux[e].ms[i].last < q[k][1]
            /\ \A j, k \in 1..Len(q) : j < k => q[j][1] < q[k][1]

\* a step in which the task takes the data payload numbered seq puts it at the
\* tail of a stream's outstanding payloads, or refuses it with a Rst for a port
\* that has no entry or no reader
Delivered ==
    seq' # seq =>
        \E e \in Role :
            \/ \E i \in DOMAIN mux[e].ms :
                  /\ \E p \in Ports : mux[e].streams[p] = i
                  /\ LET q == Outstanding(e, i)'
                     IN  Len(q) > 0 /\ q[Len(q)] = <<seq>>
                  /\ mux'[e].ms[i].last = mux[e].ms[i].last
            \/ \E p \in Ports, s \in PeerPorts :
                  /\ wire'[Peer(e)] = <<new_rst(p, s)>>
                  /\ \/ mux[e].streams[p] = 0
                     \/ ~ReceiverAlive(mux[e], mux[e].streams[p])

\* a read takes the oldest frame of the queue and nothing else
ReadsHead ==
    \A e \in Role : \A i \in DOMAIN mux[e].ms :
        (mux'[e].ms[i].st = "live" /\ mux[e].ms[i].st = "live"
            /\ mux'[e].ms[i].last # mux[e].ms[i].last) =>
        /\ Head(mux[e].ms[i].frame_rx) = <<mux'[e].ms[i].last>>
        /\ mux'[e].ms[i].frame_rx = Tail(mux[e].ms[i].frame_rx)

\* C3: the Psh payloads a peer sends on one port reach the stream's reader in
\* the order sent, none lost, none twice, none out of order, while the port
\* is open.
C3_PshInOrder == []InOrder /\ [][Delivered /\ ReadsHead]_vars

\* a reader has read the first payload and the second waits in its queue
C3_ReadOneQueuedNext ==
    \E e \in Role : \E i \in Live(e) :
        mux[e].ms[i].last = 1 /\ mux[e].ms[i].frame_rx = << <<2>> >>

\* the streams of multiplexor m whose user has not dropped them
Alive(m) == {i \in DOMAIN m.ms : ReceiverAlive(m, i)}

\* what the task at end e does with msg when it takes it now, for each port
\* the allocator may yield
Outcomes(e, msg) ==
    {process_message(mux[e], e, msg, key) : key \in Ports}

\* a step of shutdown that takes an entry out of the table leaves EOF at the
\* tail of that stream's queue if it has a reader, and sets its removed-flag
ShutdownGivesEOF ==
    \A e \in Role : \A p \in Ports :
        LET id == mux[e].streams[p]
        IN  (mux[e].task = "shutdown" /\ id # 0 /\ mux'[e].streams[p] = 0) =>
                /\ mux'[e].ms[id].stream_removed
                /\ ReceiverAlive(mux[e], id) =>
                      mux'[e].ms[id].frame_rx = Append(mux[e].ms[id].frame_rx, EOF)

\* the task is gone only after shutdown emptied the table, and then every
\* stream that is still in its user's hands has its removed-flag set
ExitedClean ==
    \A e \in Role :
        mux[e].task = "exited" =>
            /\ \A p \in Ports : mux[e].streams[p] = 0
            /\ \A i \in Alive(mux[e]) : mux[e].ms[i].stream_removed

\* a Syn at a client, an Ack at a server
WrongRole(e, msg) ==
    /\ msg.kind = "Stream"
    /\ \/ msg.flag = "Syn" /\ e = "Client"
       \/ msg.flag = "Ack" /\ e = "Server"

RoleError(e) == IF e = "Client" THEN "ClientReceivedSyn" ELSE "ServerReceivedAck"

\* whenever the task can take a message, a Syn at a client or an Ack at a
\* server makes it return the role's error, with the multiplexor as it was
RejectsWrongRole ==
    \A e \in Role :
        AtSelect(mux[e]) =>
            \A msg \in Incoming(e) :
                WrongRole(e, msg) =>
                    \A r \in Outcomes(e, msg) :
                        /\ r.err = RoleError(e)
                        /\ r.out = << >>
                        /\ r.m = mux[e]
                        /\ Return(r).task = "shutdown"
                        /\ Return(r).result = RoleError(e)

\* the step in which the task ends with one of the two errors: the error is
\* the one of its role, the table and the streams are as before, shutdown is next
EndsWithRoleError ==
    \A e \in Role :
        (mux[e].result = "none"
            /\ mux'[e].result \in {"ClientReceivedSyn", "ServerReceivedAck"}) =>
            /\ mux'[e].result = RoleError(e)
            /\ mux'[e].task = "shutdown"
            /\ mux'[e].streams = mux[e].streams
            /\ mux'[e].ms = mux[e].ms

\* every Syn on the transport was sent by the client-role end, every Ack by
\* the server-role end
EmitsByRole ==
    \A x \in Role : \A k \in 1..Len(wire[x]) :
        /\ (wire[x][k].kind = "Stream" /\ wire[x][k].flag = "Syn") => Peer(x) = "Client"
        /\ (wire[x][k].kind = "Stream" /\ wire[x][k].flag = "Ack") => Peer(x) = "Server"

\* C4: Syn is emitted only by the client and Ack only by the server; a
\* client-role multiplexor that receives a Syn ends with ClientReceivedSyn, a
\* server-role one that receives an Ack ends with ServerReceivedAck; neither
\* creates a port-table entry, and shutdown then gives EOF to every stream
\* still in the table.
C4_WrongRoleRejected ==
    /\ [](EmitsByRole /\ RejectsWrongRole /\ ExitedClean)
    /\ [][EndsWithRoleError /\ ShutdownGivesEOF]_vars

\* a client ended on a Syn while its user held a stream: the stream got EOF
C4_ClientEndedOnSyn ==
    /\ mux["Client"].task = "exited"
    /\ mux["Client"].result = "ClientReceivedSyn"
    /\ \E i \in Live("Client") :
          /\ mux["Client"].ms[i].stream_removed
          /\ mux["Client"].ms[i].frame_rx = <<EOF>>

\* the task at end e would create a stream for msg
RightRole(e, msg) ==
    /\ msg.kind = "Stream"
    /\ \/ msg.flag = "Syn" /\ e = "Server"
       \/ msg.flag = "Ack" /\ e = "Client"

\* a server takes a Syn and a client takes an Ack without an error, the other
\* way round is an error; the stream made is on the peer's source port
AcceptsByRole ==
    \A e \in Role :
        AtSelect(mux[e]) =>
            \A msg \in Incoming(e) :
                /\ WrongRole(e, msg) => \A r \in Outcomes(e, msg) : r.err # "none"
                /\ (RightRole(e, msg) /\ FreeSlots(mux[e]) # {}) =>
                      \A r \in Outcomes(e, msg) :
                          /\ r.err = "none"
                          /\ r.m.blocked.kind # "alloc" =>
                                \E i \in Alive(r.m) \ Alive(mux[e]) :
                                    r.m.ms[i].their_port = msg.sport

\* C5 (as the code has it): only the client emits Syn and only the server
\* emits Ack; a Syn at a client and an Ack at a server are protocol errors,
\* while a server accepts an inbound Syn and a client an inbound Ack.
C5_ClientSynServerAck == [](EmitsByRole /\ AcceptsByRole)

\* a server accepted a Syn: the stream is in its table and its Ack went out
C5_ServerAcked ==
    \E p \in Ports, s \in PeerPorts :
        /\ wire["Client"] = <<new_ack(p, s)>>
        /\ mux["Server"].streams[p] # 0

\* C5 (as the spec words it): only the server emits Syn and only the client
\* emits Ack; a server never accepts an inbound Syn and a client never accepts
\* an inbound Ack.
C5_ServerSynClientAck ==
    /\ \A x \in Role : \A k \in 1..Len(wire[x]) :
          /\ (wire[x][k].kind = "Stream" /\ wire[x][k].flag = "Syn") => Peer(x) = "Server"
          /\ (wire[x][k].kind = "Stream" /\ wire[x][k].flag = "Ack") => Peer(x) = "Client"
    /\ \A e \in Role :
          AtSelect(mux[e]) =>
              \A msg \in Incoming(e) :
                  RightRole(e, msg) => \A r \in Outcomes(e, msg) : r.err # "none"

\* msg is a frame with this flag for a port whose stream has a reader
ForOpenPort(e, msg, flag) ==
    /\ msg.kind = "Stream"
    /\ msg.flag = flag
    /\ mux[e].streams[msg.dport] # 0
    /\ ReceiverAlive(mux[e], mux[e].streams[msg.dport])

\* the task is suspended in its send of EOF to stream id, to go on with `then`
SuspendedOnEOF(m, id, then) ==
    m.blocked.kind = "send" /\ m.blocked.id = id /\ m.blocked.data = EOF
        /\ m.blocked.then = then

\* whenever the task can take a message, a Rst for a port with a reader takes
\* the entry out and answers nothing; the stream gets EOF behind what is queued
\* and its removed-flag set, after which a write sends no frame; if the queue
\* is full the task waits for room with the EOF in hand
RstClosesPort ==
    \A e \in Role :
        AtSelect(mux[e]) =>
            \A msg \in Incoming(e) :
                ForOpenPort(e, msg, "Rst") =>
                    LET id == mux[e].streams[msg.dport]
                        s == mux[e].ms[id]
                    IN  \A r \in Outcomes(e, msg) :
                            /\ r.err = "none"
                            /\ r.out = << >>
                            /\ r.m.streams[msg.dport] = 0
                            /\ IF Len(s.frame_rx) < STREAM_FRAME_BUFFER_SIZE
                               THEN /\ r.m.ms[id].frame_rx = Append(s.frame_rx, EOF)
                                    /\ r.m.ms[id].stream_removed
                                    /\ WriteFrames(r.m.ms[id], <<0>>) = << >>
                                    /\ r.m.blocked = NotBlocked
                               ELSE /\ r.m.ms[id] = s
                                    /\ SuspendedOnEOF(r.m, id, "close")

\* when the suspended send of close_port completes, the stream has its EOF (if
\* it still has a reader) and its removed-flag
CloseCompletes ==
    \A e \in Role : \A i \in DOMAIN mux[e].ms :
        (SuspendedOnEOF(mux[e], i, "close") /\ mux'[e].blocked.kind = "none") =>
            /\ mux'[e].ms[i].stream_removed
            /\ ReceiverAlive(mux[e], i) =>
                  mux'[e].ms[i].frame_rx = Append(mux[e].ms[i].frame_rx, EOF)

\* a removed-flag that is set stays set while the stream exists
RemovedStays ==
    \A e \in Role : \A i \in DOMAIN mux[e].ms :
        (ReceiverAlive(mux[e], i) /\ ReceiverAlive(mux'[e], i)
            /\ mux[e].ms[i].stream_removed) => mux'[e].ms[i].stream_removed

\* a Psh goes out only for a stream in its user's hands whose removed-flag and
\* fin_sent are both false
PshOnlyFromOpen ==
    \A e \in Role : \A k \in 1..Len(wire'[Peer(e)]) :
        LET f == wire'[Peer(e)][k]
        IN  (mux[e].task # "absent" /\ wire'[Peer(e)] # wire[Peer(e)]
                /\ f.kind = "Stream" /\ f.flag = "Psh") =>
                \E i \in Live(e) :
                    /\ ~mux[e].ms[i].stream_removed
                    /\ ~mux[e].ms[i].fin_sent
                    /\ f.sport = mux[e].ms[i].our_port
                    /\ f.dport = mux[e].ms[i].their_port

\* C6: once the multiplexor has processed an inbound Rst for a port with a
\* live stream, the entry is gone, an empty payload is queued behind the
\* data already there and the removed-flag is set, so the reader comes to EOF
\* and every later write sends nothing (BrokenPipe).
C6_RstGivesEOFAndBrokenPipe ==
    /\ []RstClosesPort
    /\ [][CloseCompletes /\ RemovedStays /\ PshOnlyFromOpen]_vars

\* a stream in its user's hands was reset by the peer with data in its queue
C6_ResetWithData ==
    \E e \in Role : \E i \in Live(e) :
        /\ mux[e].task = "running"
        /\ mux[e].ms[i].stream_removed
        /\ mux[e].ms[i].frame_rx = << <<0>>, EOF >>
        /\ mux[e].streams[mux[e].ms[i].our_port] = 0

\* whenever the task can take a message, a Fin for a port with a reader puts
\* EOF behind what is queued (or waits for room with it) and changes nothing
\* else: the entry stays, the removed-flag is as it was, a write still sends
\* its Psh
FinHalfCloses ==
    \A e \in Role :
        AtSelect(mux[e]) =>
            \A msg \in Incoming(e) :
                ForOpenPort(e, msg, "Fin") =>
                    LET id == mux[e].streams[msg.dport]
                        s == mux[e].ms[id]
                    IN  \A r \in Outcomes(e, msg) :
                            /\ r.err = "none"
                            /\ r.out = << >>
                            /\ r.m.streams = mux[e].streams
                            /\ r.m.ms[id].stream_removed = s.stream_removed
                            /\ WriteFrames(r.m.ms[id], <<0>>) = WriteFrames(s, <<0>>)
                            /\ IF Len(s.frame_rx) < STREAM_FRAME_BUFFER_SIZE
                               THEN /\ r.m.ms[id] = [s EXCEPT !.frame_rx = Append(@, EOF)]
                                    /\ r.m.blocked = NotBlocked
                               ELSE /\ r.m.ms[id] = s
                                    /\ SuspendedOnEOF(r.m, id, "fin")

\* when the suspended send of the Fin branch completes, the table and the
\* removed-flag are as they were
FinCompletes ==
    \A e \in Role : \A i \in DOMAIN mux[e].ms :
        (SuspendedOnEOF(mux[e], i, "fin") /\ mux'[e].blocked.kind = "none") =>
            /\ mux'[e].streams = mux[e].streams
            /\ mux'[e].ms[i].stream_removed = mux[e].ms[i].stream_removed
            /\ ReceiverAlive(mux[e], i) =>
                  mux'[e].ms[i].frame_rx = Append(mux[e].ms[i].frame_rx, EOF)

\* a write on a stream in its user's hands, not shut down and with its
\* removed-flag false, sends its Psh whatever its queue holds
OpenStreamWrites ==
    \A e \in Role : \A i \in Live(e) :
        (~mux[e].ms[i].stream_removed /\ ~mux[e].ms[i].fin_sent) =>
            WriteFrames(mux[e].ms[i], <<0>>) =
                <<new_psh(mux[e].ms[i].our_port, mux[e].ms[i].their_port, <<0>>)>>

\* C7: an inbound Fin half-closes a port: the reader gets EOF, the port-table
\* entry stays, the removed-flag stays false, and writes on the local stream
\* go on reaching the peer until the local side shuts down or drops it.
C7_FinHalfCloses ==
    /\ [](FinHalfCloses /\ OpenStreamWrites)
    /\ [][FinCompletes]_vars

\* after the peer's Fin (EOF is queued) the stream is still in the table and
\* a write on it has just put a Psh on the transport
C7_WroteAfterFin ==
    \E e \in Role : \E i \in Live(e) :
        LET s == mux[e].ms[i]
        IN  /\ s.frame_rx = <<EOF>>
            /\ ~s.stream_removed
            /\ mux[e].streams[s.our_port] = i
            /\ wire[Peer(e)] = <<new_psh(s.our_port, s.their_port, <<0>>)>>

\* every entry of the port table is the entry of a stream made on that port
\* whose removed-flag is false; the stream is in its user's hands or in the
\* accept queue, or its user dropped it and the drop notification still
\* waits for the task (or the task has returned and shutdown is to empty the
\* table)
EntryHasStream ==
    \A e \in Role : \A p \in Ports :
        LET i == mux[e].streams[p]
            s == mux[e].ms[i]
        IN  i # 0 =>
                /\ s.st \in {"queued", "live", "dropped"}
                /\ s.our_port = p
                /\ ~s.stream_removed
                /\ s.st = "dropped" =>
                      \/ mux[e].task # "running"
                      \/ \E k \in 1..Len(mux[e].dropped_ports) :
                            mux[e].dropped_ports[k] = <<p, s.their_port, s.fin_sent>>

\* an entry is taken out only by a close or by shutdown: the stream's
\* removed-flag is set in the same step, or the task waits for room in the
\* stream's queue to set it next, or the stream is gone altogether
EntryGoesWithFlag ==
    \A e \in Role : \A p \in Ports :
        LET i == mux[e].streams[p]
        IN  (i # 0 /\ mux'[e].streams[p] = 0) =>
                \/ mux'[e].ms[i].stream_removed
                \/ SuspendedOnEOF(mux'[e], i, "close")
                \/ mux'[e].ms[i].st = "free"

\* C8 (as the code has it): a port has an entry only for a stream that was
\* created on it and whose removed-flag is false; the entry outlives the
\* user's drop until the task handles the drop notification, and it goes
\* only together with the removed-flag being set.
C8_EntryOnlyForOpenStream == []EntryHasStream /\ [][EntryGoesWithFlag]_vars

\* a stream's user has dropped it and its entry is still in the table
C8_DroppedStillInTable ==
    \E e \in Role : \E p \in Ports :
        /\ mux[e].streams[p] # 0
        /\ mux[e].ms[mux[e].streams[p]].st = "dropped"
        /\ mux[e].task = "running"

\* C8 (as the spec words it): a port has an entry if and only if its stream
\* is alive (created and not dropped by its user) and has not been reset or
\* closed by either side.
C8_EntryIffAlive ==
    \A e \in Role : \A p \in Ports :
        (mux[e].streams[p] # 0) <=>
            (\E i \in Alive(mux[e]) :
                mux[e].ms[i].our_port = p /\ ~mux[e].ms[i].stream_removed)

\* C9: port 0 is never a key of the port table and never the our_port of a
\* stream in its user's hands, whatever ports the inbound frames carry.
C9_NoPortZero ==
    \A e \in Role :
        /\ mux[e].streams[0] = 0
        /\ \A i \in Live(e) : mux[e].ms[i].our_port # 0

\* whenever the task can take a message, a Close makes process_message say so,
\* with the multiplexor as it was, and the task returns Ok and goes to shutdown
ClosesOnClose ==
    \A e \in Role :
        AtSelect(mux[e]) =>
            \A msg \in Incoming(e) :
                msg.kind = "Close" =>
                    \A r \in Outcomes(e, msg) :
                        /\ r.err = "Close"
                        /\ r.out = << >>
                        /\ r.m = mux[e]
                        /\ Return(r).task = "shutdown"
                        /\ Return(r).result = "Ok"

\* the step in which the task returns Ok touches no entry and no stream that
\* has a reader, and shutdown is next
EndsOk ==
    \A e \in Role :
        (mux[e].result = "none" /\ mux'[e].result = "Ok") =>
            /\ mux'[e].task = "shutdown"
            /\ mux'[e].streams = mux[e].streams
            /\ \A i \in Alive(mux[e]) : mux'[e].ms[i] = mux[e].ms[i]

\* once the task has returned, its result stands and the table only loses
\* entries, until the task is gone
ShutdownRuns ==
    \A e \in Role :
        mux[e].task \in {"shutdown", "exited"} =>
            /\ mux'[e].result = mux[e].result
            /\ mux'[e].task \in {mux[e].task, "exited"}
            /\ \A p \in Ports : mux'[e].streams[p] \in {0, mux[e].streams[p]}

\* shutdown has a step to take unless it waits for room in a full queue
ShutdownCanRun ==
    \A e \in Role :
        (mux[e].task = "shutdown"
            /\ \A p \in Ports :
                  mux[e].streams[p] # 0 => TrySend(mux[e], mux[e].streams[p]) # "full") =>
            ENABLED (Shutdown(e) \/ ShutdownClose(e))

\* C10: one Close message from the transport ends the demultiplex loop with
\* the result Ok, not an error; shutdown runs next and gives EOF to every
\* stream still in the table before the task is gone.
C10_CloseEndsOk ==
    /\ [](ClosesOnClose /\ ShutdownCanRun /\ ExitedClean)
    /\ [][EndsOk /\ ShutdownRuns /\ ShutdownGivesEOF]_vars

\* the task is gone with the result Ok and the stream its user holds got EOF
C10_ClosedWithStream ==
    \E e \in Role : \E i \in Live(e) :
        /\ mux[e].task = "exited"
        /\ mux[e].result = "Ok"
        /\ mux[e].ms[i].stream_removed
        /\ mux[e].ms[i].frame_rx = <<EOF>>

\* the messages the task at end e can take now
Takeable(e) ==
    {msg \in Incoming(e) \cup (IF RawPeer(Peer(e)) THEN CraftedBinary ELSE {}) :
        CreatesStream(e, msg) => FreeSlots(mux[e]) # {}}

\* the error the handling of msg is to end with ("none": no error by the
\* message itself), when the allocator yields key
ErrorOf(e, msg, key) ==
    CASE msg.kind = "Text" -> "TextMessage"
      [] msg.kind = "Binary" /\ ~Decodable(msg.data) -> "InvalidFrame"
      [] msg.kind = "Binary" /\ mux[e].front = "dropped" -> "SendDatagram"
      [] WrongRole(e, msg) -> RoleError(e)
      [] CreatesStream(e, msg) /\ mux[e].front = "dropped" /\ (msg.flag = "Syn" => key # 0) ->
            "SendStreamToClient"
      [] OTHER -> "none"

\* whenever the task can take a message: a Text message, octets that are no
\* frame, a Syn or Ack for the wrong role, a stream or datagram nobody is left
\* to receive, and a reply the transport does not take each make the handler
\* return its error, and task_inner returns that error and shutdown is next
ErrorsStop ==
    \A e \in Role :
        AtSelect(mux[e]) =>
            \A msg \in Takeable(e) : \A key \in Ports :
                LET h == process_message(mux[e], e, msg, key)
                    r == SendResult(mux[e], h, NoDrop)
                IN  /\ ErrorOf(e, msg, key) # "none" => r.err = ErrorOf(e, msg, key)
                    /\ (mux[e].sink # "open" /\ h.out # << >> /\ h.err = "none") =>
                          r.err = "WebSocket" /\ r.out = << >>
                    /\ r.err \notin {"none", "Close"} =>
                          /\ Return(r).task = "shutdown"
                          /\ Return(r).result = r.err

\* the task leaves its loop only with a result, and for shutdown; a read error
\* of the transport is that result
ErrorEnds ==
    \A e \in Role :
        /\ (mux[e].task = "running" /\ mux'[e].task # "running") =>
              mux'[e].task = "shutdown" /\ mux'[e].result # "none"
        /\ TaskReadError(e) =>
              mux'[e].task = "shutdown" /\ mux'[e].result = "WebSocket"

C12_ShutdownCompletes ==
    \A e \in Role : (mux[e].task = "shutdown") ~> (mux[e].task = "exited")

\* no receive queue holds more frames than its capacity
QueueBounded ==
    \A e \in Role : \A i \in DOMAIN mux[e].ms :
        Len(mux[e].ms[i].frame_rx) <= STREAM_FRAME_BUFFER_SIZE

\* whenever the task can take a message, a Psh for a port whose queue is full
\* and has a reader suspends the task with the payload in hand: nothing is
\* queued, nothing is sent, nothing else changes
SuspendsWhenFull ==
    \A e \in Role :
        AtSelect(mux[e]) =>
            \A msg \in Incoming(e) :
                LET id == mux[e].streams[msg.dport]
                IN  (msg.kind = "Stream" /\ msg.flag = "Psh" /\ id # 0
                        /\ TrySend(mux[e], id) = "full") =>
                        \A r \in Outcomes(e, msg) :
                            /\ r.err = "none"
                            /\ r.out = << >>
                            /\ r.m = [mux[e] EXCEPT !.blocked =
                                        Blocked("send", id, msg.data, msg.dport, msg.sport, "psh")]

\* a suspended task takes nothing: no message, no drop notification, no tick
NoIntakeWhileSuspended ==
    \A e \in Role :
        mux[e].blocked.kind # "none" =>
            /\ ~ENABLED TaskMessage(e)
            /\ ~ENABLED TaskDropped(e)
            /\ ~ENABLED KeepaliveTick(e)

\* a Pong is sent only in a step the task starts at its select!, and a task
\* suspended in a send into a queue goes on only when that queue is no longer
\* full: its reader took a frame, or is gone
ResumesWithRoom ==
    \A e \in Role :
        /\ (\E k \in 1..Len(wire'[Peer(e)]) :
                wire'[Peer(e)][k].kind = "Pong" /\ wire'[Peer(e)] # wire[Peer(e)]) =>
              AtSelect(mux[e])
        /\ (mux[e].blocked.kind = "send" /\ mux'[e].blocked # mux[e].blocked) =>
              TrySend(mux[e], mux[e].blocked.id) # "full"

\* C13: a receive queue never holds more than STREAM_FRAME_BUFFER_SIZE frames;
\* with the queue of a port full and its reader not reading, the next Psh for
\* that port suspends the demultiplex loop, which then takes no further
\* message: a Ping is answered with a Pong only after the reader took a frame.
C13_FullQueueSuspendsLoop ==
    /\ [](QueueBounded /\ SuspendsWhenFull /\ NoIntakeWhileSuspended)
    /\ [][ResumesWithRoom]_vars

\* the queue of a stream in its user's hands is full of data and the task is
\* suspended with the next payload for it
C13_SuspendedOnFullQueue ==
    \E e \in Role : \E i \in Live(e) :
        /\ Len(mux[e].ms[i].frame_rx) = STREAM_FRAME_BUFFER_SIZE
        /\ \A k \in 1..Len(mux[e].ms[i].frame_rx) : mux[e].ms[i].frame_rx[k] # EOF
        /\ mux[e].blocked.kind = "send"
        /\ mux[e].blocked.id = i
        /\ mux[e].blocked.data # EOF

\* m is a Psh or a Fin from port our to port their
DataOrFin(m, our, their) ==
    m.kind = "Stream" /\ m.flag \in {"Psh", "Fin"} /\ m.sport = our /\ m.dport = their

\* a stream nobody has touched yet has fin_sent false
StartsUnsent ==
    \A e \in Role : \A i \in DOMAIN mux[e].ms :
        mux[e].ms[i].st = "queued" => ~mux[e].ms[i].fin_sent

\* whatever the task takes, what it sends is never a Psh or a Fin
TaskSendsNoData ==
    \A e \in Role :
        AtSelect(mux[e]) =>
            \A msg \in Takeable(e) : \A r \in Outcomes(e, msg) :
                \A k \in 1..Len(r.out) : ~(r.out[k].kind = "Stream" /\ r.out[k].flag \in {"Psh", "Fin"})

\* fin_sent of a stream in its user's hands never goes back to false
FinSentStays ==
    \A e \in Role : \A i \in DOMAIN mux[e].ms :
        (mux[e].ms[i].st = "live" /\ mux[e].ms[i].fin_sent /\ mux'[e].ms[i].st # "free") =>
            mux'[e].ms[i].fin_sent

\* a write or a shutdown of a stream whose fin_sent is true sends nothing; the
\* shutdown of one whose fin_sent is false sends one Fin and sets fin_sent
OneFin ==
    \A e \in Role : \A i \in DOMAIN mux[e].ms :
        LET s == mux[e].ms[i]
        IN  /\ ((StreamWrite(e, i) \/ StreamShutdown(e, i)) /\ s.fin_sent) =>
                  \A k \in 1..Len(wire'[Peer(e)]) :
                      ~DataOrFin(wire'[Peer(e)][k], s.our_port, s.their_port)
            /\ (StreamShutdown(e, i) /\ ~s.fin_sent) =>
                  /\ wire'[Peer(e)] = <<new_fin(s.our_port, s.their_port)>>
                  /\ mux'[e].ms[i].fin_sent

EOFOnce ==
    \A e \in Role : \A i \in DOMAIN mux[e].ms : mux[e].ms[i].eofs <= 1

\* a read of a stream whose reader already got the empty payload gets nothing
\* but the empty payload
EOFLast ==
    \A e \in Role : \A i \in DOMAIN mux[e].ms :
        (StreamRead(e, i) /\ mux[e].ms[i].eofs > 0) => Head(mux[e].ms[i].frame_rx) = EOF

\* C15: for every port the reader of the stream gets the empty payload (EOF)
\* at most once, and every read after it gets EOF, whatever Fin, Rst and Psh
\* frames come in and whatever drops and shutdown do.
C15_EOFAtMostOnce == []EOFOnce /\ [][EOFLast]_vars

\* the client calls in flight wait on different ports
PendingDistinct ==
    \A e \in Role : \A j, k \in 1..Len(mux[e].pending) :
        j # k => mux[e].pending[j] # mux[e].pending[k]

\* the stream a returning call takes is on the port that call put in its Syn:
\* the call that leaves the calls in flight is one that waited on the port of
\* the stream handed over
ReturnsOwnStream ==
    \A e \in Role :
        ClientReturn(e) =>
            \E k \in 1..Len(mux[e].pending) :
                /\ mux'[e].pending = Without(mux[e].pending, k)
                /\ mux[e].pending[k] = mux[e].ms[Head(mux[e].stream_tx)].our_port

\* C16: each call of client_new_stream_channel returns the stream made by the
\* Ack that answers its own Syn (the stream's our_port is the port the call
\* took and put in its Syn), also with several calls in flight; no two calls in
\* flight use the same our_port and no call gets another call's stream.
C16_CallGetsOwnStream == []PendingDistinct /\ [][ReturnsOwnStream]_vars

\* C17: when every port the allocator may give out is in the table, the next
\* allocation fails with NoAvailablePorts: a Syn taken by a server in that
\* state makes the handler return that error, not go on with a port.
C17_FullTableFails ==
    \A e \in Role :
        (AtSelect(mux[e]) /\ e = "Server" /\ FreeSlots(mux[e]) # {}
            /\ NextAvailableKey(mux[e].streams) = {}) =>
            \A msg \in Incoming(e) :
                (msg.kind = "Stream" /\ msg.flag = "Syn") =>
                    process_message(mux[e], e, msg, 0).err = "NoAvailablePorts"

\* q holds a Ping
HasPing(q) == \E k \in 1..Len(q) : q[k].kind = "Ping"

\* a multiplexor built without a keepalive interval has sent no Ping in the
\* last step, cannot take a tick, and sends no Ping whatever message it takes
NoPingWithoutInterval ==
    \A e \in Role :
        (mux[e].task # "absent" /\ mux[e].keepalive_interval = "None") =>
            /\ ~HasPing(wire[Peer(e)])
            /\ ~ENABLED KeepaliveTick(e)
            /\ AtSelect(mux[e]) =>
                  \A msg \in Takeable(e) : \A r \in Outcomes(e, msg) : ~HasPing(r.out)

\* a tick sends one Ping with an empty payload and changes nothing else; if the
\* transport does not take it the task ends with the error
TickSendsPing ==
    \A e \in Role :
        KeepaliveTick(e) =>
            IF mux[e].sink = "open"
            THEN wire'[Peer(e)] = <<Ping(EOF)>> /\ mux'[e] = mux[e]
            ELSE /\ wire'[Peer(e)] = << >>
                 /\ mux'[e].task = "shutdown"
                 /\ mux'[e].result = "WebSocket"

\* C18: with keepalive_interval = None the multiplexor never emits a Ping;
\* with an interval each keepalive tick emits one Ping with an empty payload.
C18_PingOnlyOnTick == []NoPingWithoutInterval /\ [][TickSendsPing]_vars

\* a multiplexor with an interval and a stream in its user's hands has just
\* sent its Ping
C18_PingSent ==
    \E e \in Role :
        /\ mux[e].keepalive_interval = "Some"
        /\ wire[Peer(e)] = <<Ping(EOF)>>
        /\ Live(e) # {}

\* dropping the front end puts one notification with our_port = 0 at the tail
\* of the drop-notify channel, behind those already there
DropSendsSentinel ==
    \A e \in Role :
        FrontDrop(e) =>
            LET n == Len(mux[e].dropped_ports)
            IN  /\ Len(mux'[e].dropped_ports) > n
                /\ SubSeq(mux'[e].dropped_ports, 1, n) = mux[e].dropped_ports
                /\ mux'[e].dropped_ports[n + 1][1] = 0

\* whenever the task can take a drop notification whose our_port is 0, its
\* handler returns Ok with nothing sent and nothing changed: no port is
\* closed; and shutdown is next
SentinelEndsOk ==
    \A e \in Role :
        LET m == mux[e]
        IN  (AtSelect(m) /\ m.dropped_ports # << >> /\ Head(m.dropped_ports)[1] = 0) =>
                LET r == SendResult(m, DropHandler(m, Head(m.dropped_ports)), Head(m.dropped_ports))
                IN  /\ r.err = "Close"
                    /\ r.out = << >>
                    /\ r.m = m
                    /\ Return(r).task = "shutdown"
                    /\ Return(r).result = "Ok"

\* the step in which the task takes such a notification ends its loop with Ok,
\* sends nothing and leaves the table as it was
SentinelStep ==
    \A e \in Role :
        (TaskDropped(e) /\ Head(mux[e].dropped_ports)[1] = 0) =>
            /\ mux'[e].task = "shutdown"
            /\ mux'[e].result = "Ok"
            /\ mux'[e].streams = mux[e].streams
            /\ mux'[e].dropped_ports = Tail(mux[e].dropped_ports)
            /\ wire'[Peer(e)] = << >>
            /\ \A i \in Alive(mux[e]) : mux'[e].ms[i] = mux[e].ms[i]

\* C19: dropping the multiplexor front end puts a drop notification with
\* our_port = 0 on the drop-notify channel; when the demultiplex task takes it,
\* the task exits with Ok without calling close_port, and shutdown runs.
C19_FrontDropEndsTask ==
    /\ [](SentinelEndsOk /\ ShutdownCanRun /\ ExitedClean)
    /\ [][DropSendsSentinel /\ SentinelStep /\ ShutdownRuns /\ ShutdownGivesEOF]_vars

\* the front end was dropped with a stream in its user's hands, the task took
\* the notification and is gone with Ok, and the stream got EOF
C19_ExitedOnFrontDrop ==
    \E e \in Role : \E i \in Live(e) :
        /\ mux[e].front = "dropped"
        /\ mux[e].dropped_ports = << >>
        /\ mux[e].task = "exited"
        /\ mux[e].result = "Ok"
        /\ mux[e].ms[i].stream_removed
        /\ mux[e].ms[i].frame_rx = <<EOF>>

\* the Datagram frame that message msg carries
Carried(msg) == DecodeDatagram(msg.data)

\* the message at the head of the transport towards e is a Datagram frame
DatagramNext(e) ==
    /\ wire[e] # << >>
    /\ Head(wire[e]).kind = "Binary"
    /\ Decodable(Head(wire[e]).data)

\* the octets of an encoded Datagram frame decode to the frame: host, port,
\* source_id and payload are the ones encoded
DatagramRoundTrip ==
    \A f \in Datagrams :
        /\ Decodable(EncodeDatagram(f).data)
        /\ Carried(EncodeDatagram(f)) = f

\* every binary message in flight between the two multiplexors is a Datagram
\* frame some user sent, and so is every frame waiting in a datagram channel
\* or in a suspended send to it
DatagramsAsSent ==
    \A e \in Role :
        /\ \A k \in 1..Len(wire[e]) :
              wire[e][k].kind = "Binary" =>
                  \E f \in Datagrams : wire[e][k] = EncodeDatagram(f)
        /\ \A k \in 1..Len(mux[e].datagram_tx) : mux[e].datagram_tx[k] \in Datagrams
        /\ mux[e].blocked.kind = "datagram" =>
              \E f \in Datagrams : mux[e].blocked.data = EncodeDatagram(f).data

\* whenever the task can take a Datagram frame, processing it sends nothing,
\* returns no error and changes nothing of the multiplexor but the datagram
\* channel, which gets the frame at its tail, or, the channel full, the send
\* the task is then suspended in
DatagramLeavesStreams ==
    \A e \in Role :
        \A f \in Datagrams :
            LET m == mux[e]
                r == process_message(m, e, EncodeDatagram(f), 0)
            IN  (AtSelect(m) /\ m.front = "held") =>
                    /\ r.out = << >>
                    /\ r.err = "none"
                    /\ r.m.streams = m.streams
                    /\ r.m.ms = m.ms
                    /\ r.m.stream_tx = m.stream_tx
                    /\ IF Len(m.datagram_tx) < DATAGRAM_BUFFER_SIZE
                       THEN r.m = [m EXCEPT !.datagram_tx = Append(@, f)]
                       ELSE /\ r.m.datagram_tx = m.datagram_tx
                            /\ r.m.blocked.kind = "datagram"
                            /\ DecodeDatagram(r.m.blocked.data) = f

\* send_datagram puts the frame, encoded, behind what is already in flight
DatagramSent ==
    \A e \in Role :
        SendDatagram(e) =>
            \E f \in Datagrams :
                /\ wire'[Peer(e)] = Append(wire[Peer(e)], EncodeDatagram(f))
                /\ Carried(wire'[Peer(e)][Len(wire'[Peer(e)])]) = f

\* the step in which the task takes a Datagram frame off the transport, and
\* the step that resumes a suspended send of one: the frame goes to the tail of
\* the datagram channel (or the task is suspended with it), the port table, the
\* accept queue and every stream with its receive queue stay as they were, and
\* nothing is sent
DatagramTaken ==
    \A e \in Role :
        /\ (TaskMessage(e) /\ DatagramNext(e)) =>
              /\ mux'[e].streams = mux[e].streams
              /\ mux'[e].ms = mux[e].ms
              /\ mux'[e].stream_tx = mux[e].stream_tx
              /\ wire'[Peer(e)] = wire[Peer(e)]
              /\ \/ mux'[e].datagram_tx = Append(mux[e].datagram_tx, Carried(Head(wire[e])))
                 \/ /\ mux'[e].datagram_tx = mux[e].datagram_tx
                    /\ Len(mux[e].datagram_tx) = DATAGRAM_BUFFER_SIZE
                    /\ mux'[e].blocked.kind = "datagram"
                    /\ mux'[e].blocked.data = Head(wire[e]).data
        /\ (TaskResume(e) /\ mux[e].blocked.kind = "datagram") =>
              /\ mux'[e].streams = mux[e].streams
              /\ mux'[e].ms = mux[e].ms
              /\ mux'[e].stream_tx = mux[e].stream_tx
              /\ wire'[Peer(e)] = wire[Peer(e)]
              /\ mux'[e].datagram_tx =
                     Append(mux[e].datagram_tx, DecodeDatagram(mux[e].blocked.data))

\* the datagram channel is a queue: frames leave it at the head only, and only
\* when the user receives one
DatagramQueue ==
    \A e \in Role :
        \/ mux'[e].datagram_tx = mux[e].datagram_tx
        \/ \E f \in Datagrams : mux'[e].datagram_tx = Append(mux[e].datagram_tx, f)
        \/ RecvDatagram(e) /\ mux'[e].datagram_tx = Tail(mux[e].datagram_tx)

\* C20: a Datagram frame sent by one endpoint is delivered on the peer's
\* datagram receiver with the same host, port, source_id and payload;
\* processing it touches no stream receive queue and leaves the port table
\* unchanged.
C20_DatagramDelivered ==
    /\ [](DatagramRoundTrip /\ DatagramsAsSent /\ DatagramLeavesStreams)
    /\ [][DatagramSent /\ DatagramTaken /\ DatagramQueue]_vars

\* the server's user can receive the Datagram frame for 127.0.0.1:53 from
\* source 7, while a stream it accepted has data waiting in its receive queue
\* and the next Datagram frame is on its way to the client
C20_DatagramReceived ==
    \E i \in Live("Server") :
        /\ mux["Server"].datagram_tx = <<DatagramFrame(<<127, 0, 0, 1>>, 53, 7, <<88>>)>>
        /\ mux["Server"].ms[i].frame_rx # << >>
        /\ mux["Server"].streams[mux["Server"].ms[i].our_port] = i
        /\ wire["Client"] # << >>
        /\ Head(wire["Client"]).kind = "Binary"

\* the request being routed asks for the upgrade at /ws with a wrong or
\* missing protocol version, or without the key the server was given
BadCredentials ==
    /\ request.at # "idle"
    /\ request.path = "ws"
    /\ request.upgrade
    /\ \/ request.protocol # PROTOCOL_VERSION
       \/ request.ws_psk # "none" /\ request.psk # request.ws_psk

\* the upgrade is granted only to a WebSocket handshake at /ws that carries
\* sec-websocket-protocol = PROTOCOL_VERSION and, the server having a key,
\* x-penguin-psk equal to it
UpgradeOnlyWithCredentials ==
    (request.at = "done" /\ request.response = "upgrade") =>
        /\ request.path = "ws"
        /\ request.upgrade
        /\ request.protocol = PROTOCOL_VERSION
        /\ request.ws_psk # "none" => request.psk = request.ws_psk

\* handle_websocket runs for a granted upgrade only
HandledOnlyUpgraded ==
    (request.at # "idle" /\ request.handled) =>
        request.response = "upgrade" /\ ~BadCredentials

\* ws_filter rejects a request without the key, or with another one, as not
\* found
PskRejectedNotFound ==
    (request.at = "ws_upgrader" /\ request.upgrade
        /\ request.protocol = PROTOCOL_VERSION /\ request.ws_psk # "none"
        /\ request.psk # request.ws_psk) => ws_filter(request) = "not_found"

\* a request with bad credentials gets the catch-all reply, status 404
BadGetsNotFound ==
    (BadCredentials /\ request.at = "done") => request.response = "NOT_FOUND"

\* the same of a server that has no backend to pass requests to
BadGetsNotFoundNoBackend ==
    (BadCredentials /\ request.at = "done" /\ request.backend = "none") =>
        request.response = "NOT_FOUND"

\* C21 (as stated): the upgrade is granted only to a request with
\* sec-websocket-protocol = PROTOCOL_VERSION and, a key configured, the right
\* x-penguin-psk; any other upgrade request is rejected as not found (404) and
\* never reaches handle_websocket.
C21_UpgradeGated ==
    [](UpgradeOnlyWithCredentials /\ HandledOnlyUpgraded /\ PskRejectedNotFound
         /\ BadGetsNotFound)

\* C21 (amended): as stated, the 404 being the reply of a server that has no
\* backend; with a backend the rejected request is passed on to it and the
\* reply is the backend's.
C21_UpgradeGatedNoBackend ==
    [](UpgradeOnlyWithCredentials /\ HandledOnlyUpgraded /\ PskRejectedNotFound
         /\ BadGetsNotFoundNoBackend)

\* a handshake with the right version and a wrong key, at a server with a key
\* and no backend, ended in the catch-all reply and no call of handle_websocket
C21_WrongPskNotFound ==
    /\ request.at = "done"
    /\ request.path = "ws" /\ request.upgrade
    /\ request.protocol = PROTOCOL_VERSION
    /\ request.ws_psk = "key" /\ request.psk = "wrong"
    /\ request.backend = "none"
    /\ request.response = "NOT_FOUND"
    /\ ~request.handled

\* the operations the retry policy is stated for
PolicyOps == {"accept", "request_channel", "handshake", "pipe"}

\* the last operation of an adapter loop failed with the error class c
Failed(c) ==
    /\ remote.pc # "idle"
    /\ remote.kind \in {"tcp", "stdio_tcp", "stdio_udp", "socks"}
    /\ remote.last.op \in PolicyOps
    /\ remote.last.outcome = c

\* after a retryable error the error is logged and handle_remote is at the
\* head of its loop, for the next connection
RetryableContinues ==
    Failed("retryable") =>
        /\ remote.last.by = "loop" => remote.last.log = "warn"
        /\ remote.last.by = "loop" => remote.pc = LoopHead(remote.kind)
        /\ remote.result = "none"

\* after a fatal error handle_remote has returned that error
FatalReturns ==
    Failed("fatal") =>
        /\ remote.pc = "returned"
        /\ remote.result = <<"Err", remote.last.op>>

\* C22: in every local adapter loop of handle_remote a retryable I/O error is
\* logged and the loop continues with the next connection, and a fatal error
\* makes handle_remote return that error, whether the error comes from
\* accepting a connection, requesting a channel, the handshake or piping.
C22_RetryPolicy == [](RetryableContinues /\ FatalReturns)

\* the last step of the server-role multiplexor sent an Ack
AckSent ==
    /\ mux["Server"].task # "absent"
    /\ wire["Client"] # << >>
    /\ Head(wire["Client"]).kind = "Stream"
    /\ Head(wire["Client"]).flag = "Ack"

\* queue q holds stream id
Holds(q, id) == \E k \in 1..Len(q) : q[k] = id

\* when the Ack goes out, its source port is in the port table, the stream of
\* that entry answers the Syn's source port, is in the accept queue, and a Psh
\* for the port would be delivered, not answered with a Rst
AckAfterInsert ==
    AckSent =>
        LET m == mux["Server"]
            ack == Head(wire["Client"])
            id == m.streams[ack.sport]
        IN  /\ Len(wire["Client"]) = 1
            /\ ack.sport # 0
            /\ id # 0
            /\ m.ms[id].our_port = ack.sport
            /\ m.ms[id].their_port = ack.dport
            /\ Holds(m.stream_tx, id)
            /\ m.blocked.kind = "none"
            /\ process_message(m, "Server", new_psh(ack.dport, ack.sport, <<0>>), 0).out = << >>

\* while new_stream waits for room in the accept queue, the entry is in the
\* table already, the stream is not yet in the queue and the Ack is not sent
NoAckBeforeQueued ==
    LET m == mux["Server"]
        b == m.blocked
    IN  (m.task = "running" /\ b.kind = "accept") =>
            /\ m.streams[b.our] = b.id
            /\ ~Holds(m.stream_tx, b.id)
            /\ ~AckSent

\* whatever Syn the server can take, the handler yields either the entry, the
\* stream in the accept queue and Ack(our_port, the Syn's source port), or the
\* entry and a suspended hand-over with nothing sent
SynYieldsAck ==
    LET m == mux["Server"]
    IN  (AtSelect(m) /\ m.front = "held" /\ FreeSlots(m) # {}) =>
            \A s \in PeerPorts : \A key \in NextAvailableKey(m.streams) :
                LET r == process_message(m, "Server", new_syn(s, Handshake), key)
                    id == r.m.streams[key]
                IN  /\ id # 0
                    /\ r.m.ms[id].our_port = key
                    /\ r.m.ms[id].their_port = s
                    /\ IF Len(m.stream_tx) < STREAM_BUFFER_SIZE
                       THEN /\ r.out = <<new_ack(key, s)>>
                            /\ r.m.stream_tx = Append(m.stream_tx, id)
                       ELSE /\ r.out = << >>
                            /\ r.m.blocked.kind = "accept"
                            /\ r.m.stream_tx = m.stream_tx

\* the step that resumes the hand-over puts the stream in the accept queue and
\* sends the Ack of its ports
ResumeSendsAck ==
    LET m == mux["Server"]
        b == m.blocked
    IN  (TaskResume("Server") /\ b.kind = "accept" /\ m.front = "held") =>
            /\ mux'["Server"].stream_tx = Append(m.stream_tx, b.id)
            /\ mux'["Server"].streams = m.streams
            /\ wire'["Client"] = <<new_ack(b.our, b.their)>>

\* C23: on an inbound Syn the server-role multiplexor inserts the port-table
\* entry and hands the stream to the accept queue before it emits the Ack, and
\* the Ack has source port = the new our_port and destination port = the Syn's
\* source port; a Psh sent after the Ack was seen finds the port present.
C23_EntryBeforeAck ==
    /\ [](AckAfterInsert /\ NoAckBeforeQueued /\ SynYieldsAck)
    /\ [][ResumeSendsAck]_vars

\* the Ack of a second stream has just gone out: two entries are in the
\* table, the first stream is in its user's hands and the second in the
\* accept queue
C23_AckAfterWait ==
    /\ AckSent
    /\ Cardinality({p \in Ports : mux["Server"].streams[p] # 0}) >= 2
    /\ Len(mux["Server"].stream_tx) = STREAM_BUFFER_SIZE
    /\ \E i \in DOMAIN mux["Server"].ms : mux["Server"].ms[i].st = "live"

\* whatever Syn the server can take and whatever key the allocator yields for
\* it, the key is not 0 and not in the table, the new entry is at that key,
\* and every other key of the table keeps what it had
SynKeepsEntries ==
    LET m == mux["Server"]
    IN  (AtSelect(m) /\ FreeSlots(m) # {}) =>
            \A s \in PeerPorts : \A key \in NextAvailableKey(m.streams) :
                LET r == process_message(m, "Server", new_syn(s, Handshake), key)
                IN  /\ key # 0
                    /\ m.streams[key] = 0
                    /\ r.m.streams[key] = NextSlot(m)
                    /\ \A p \in Ports \ {key} : r.m.streams[p] = m.streams[p]
                    /\ \A i \in DOMAIN m.ms \ {NextSlot(m)} : r.m.ms[i] = m.ms[i]

\* no step of the server gives the entry of a port to another stream: an
\* entry stays, or goes
NoOverwrite ==
    \A p \in Ports :
        mux["Server"].streams[p] # 0 =>
            mux'["Server"].streams[p] \in {0, mux["Server"].streams[p]}

\* every stream whose removed-flag is not set is the one its port's entry
\* names, so no two open streams share a port; but for the stream of a close
\* the task is suspended in, between the removal of its entry and the store
\* of its flag
OpenStreamOwnsPort ==
    \A i \in DOMAIN mux["Server"].ms :
        LET s == mux["Server"].ms[i]
        IN  (s.st \in {"queued", "live"} /\ ~s.stream_removed
                /\ mux["Server"].blocked.id # i) =>
                /\ s.our_port # 0
                /\ mux["Server"].streams[s.our_port] = i

\* C24: every port the allocator yields for a new stream is nonzero and not a
\* key of the port table when the entry is inserted, so a stream created on an
\* inbound Syn never overwrites the entry of a live stream; a port removed
\* from the table may be yielded again.
C24_FreshPortOnSyn ==
    /\ [](SynKeepsEntries /\ OpenStreamOwnsPort)
    /\ [][NoOverwrite]_vars

\* a port that was removed from the table has been given to a newer stream:
\* the older stream has its removed-flag set, the entry names the newer one
C24_PortReused ==
    \E i, j \in DOMAIN mux["Server"].ms :
        /\ i # j
        /\ mux["Server"].ms[i].our_port = mux["Server"].ms[j].our_port
        /\ mux["Server"].ms[i].stream_removed
        /\ mux["Server"].ms[i].st \in {"queued", "live"}
        /\ ~mux["Server"].ms[j].stream_removed
        /\ mux["Server"].streams[mux["Server"].ms[j].our_port] = j

\* the Rst frames a peer may send: any source port, any destination port
Rsts == {StreamFrame(s, d, "Rst", EOF) : s \in PeerPorts, d \in Ports}

\* whatever Rst the task can take, handling it sends nothing and returns no
\* error; with no entry for the port nothing changes; with an entry, the entry
\* goes, every other entry and every other stream stay as they were, and the
\* stream of the entry gets EOF and its removed-flag (at once, or when the
\* suspended send completes; no EOF if its reader is gone)
RstNotAnswered ==
    \A e \in Role :
        AtSelect(mux[e]) =>
            \A msg \in Rsts :
                LET m == mux[e]
                    id == m.streams[msg.dport]
                    r == process_message(m, e, msg, 0)
                IN  /\ r.out = << >>
                    /\ r.err = "none"
                    /\ id = 0 => r.m = m
                    /\ id # 0 =>
                          /\ r.m.streams = [m.streams EXCEPT ![msg.dport] = 0]
                          /\ \A i \in DOMAIN m.ms \ {id} : r.m.ms[i] = m.ms[i]
                          /\ CASE TrySend(m, id) = "ok" ->
                                    r.m.ms[id] = [m.ms[id] EXCEPT
                                                    !.frame_rx = Append(@, EOF),
                                                    !.stream_removed = TRUE]
                               [] TrySend(m, id) = "closed" ->
                                    r.m.ms[id] = [m.ms[id] EXCEPT !.stream_removed = TRUE]
                               [] OTHER ->
                                    /\ r.m.ms[id] = m.ms[id]
                                    /\ r.m.blocked.kind = "send"
                                    /\ r.m.blocked.then = "close"

\* the step that completes a suspended close sends nothing
CloseResumeSilent ==
    \A e \in Role :
        (TaskResume(e) /\ mux[e].blocked.kind = "send" /\ mux[e].blocked.then = "close") =>
            /\ wire'[Peer(e)] = IF RawPeer(Peer(e)) THEN << >> ELSE wire[Peer(e)]
            /\ mux'[e].streams = mux[e].streams

\* C25: processing an inbound Rst for any port, in the table or not, never
\* makes the multiplexor emit a Rst in reply: it only removes the entry if
\* there is one, enqueues EOF and sets the removed-flag.
C25_RstNotAnswered == []RstNotAnswered /\ [][CloseResumeSilent]_vars

\* a Rst has closed the port of a stream that is in its user's hands: the
\* entry is gone, EOF is queued, the flag is set, nothing went out, and
\* another stream still has its entry
C25_RstTaken ==
    \E e \in Role : \E i \in Live(e) :
        /\ mux[e].task = "running"
        /\ \E p \in Ports : mux[e].streams[p] # 0
        /\ mux[e].blocked.kind = "none"
        /\ mux[e].ms[i].stream_removed
        /\ mux[e].ms[i].frame_rx # << >>
        /\ mux[e].streams[mux[e].ms[i].our_port] = 0
        /\ mux[e].dropped_ports = << >>
        /\ wire[Peer(e)] = << >>

\* the Psh frames a peer may send: any ports, with data or with none
Pshs == {new_psh(s, d, data) : s \in PeerPorts, d \in Ports, data \in {EOF, <<0>>}}

\* whatever Psh the task can take: with no entry for its destination port, or
\* with the reader of the entry's stream gone, the handler sends one Rst from
\* that port to the frame's source port and nothing else changes; with an
\* entry and a reader, no Rst: the payload goes to the tail of the stream's
\* queue, or the task is suspended with it
PshAnswered ==
    \A e \in Role :
        AtSelect(mux[e]) =>
            \A msg \in Pshs :
                LET m == mux[e]
                    id == m.streams[msg.dport]
                    r == process_message(m, e, msg, 0)
                IN  /\ r.err = "none"
                    /\ r.m.streams = m.streams
                    /\ IF id = 0 \/ ~ReceiverAlive(m, id)
                       THEN /\ Len(r.out) = 1
                            /\ r.out[1].kind = "Stream"
                            /\ r.out[1].flag = "Rst"
                            /\ r.out[1].sport = msg.dport
                            /\ r.out[1].dport = msg.sport
                            /\ r.m = m
                       ELSE /\ r.out = << >>
                            /\ \A i \in DOMAIN m.ms \ {id} : r.m.ms[i] = m.ms[i]
                            /\ IF Len(m.ms[id].frame_rx) < STREAM_FRAME_BUFFER_SIZE
                               THEN r.m = [m EXCEPT !.ms[id].frame_rx = Append(@, msg.data)]
                               ELSE /\ r.m.ms = m.ms
                                    /\ r.m.blocked.kind = "send"
                                    /\ r.m.blocked.data = msg.data

\* the step that completes a suspended Psh: the payload is queued and nothing
\* is sent if the reader is still there, else one Rst goes out and no queue
\* changes
PshResumed ==
    \A e \in Role :
        LET m == mux[e]
            b == m.blocked
            sent == IF RawPeer(Peer(e)) THEN wire'[Peer(e)]
                    ELSE SubSeq(wire'[Peer(e)], Len(wire[Peer(e)]) + 1, Len(wire'[Peer(e)]))
        IN  (TaskResume(e) /\ b.kind = "send" /\ b.then = "psh" /\ m.sink = "open") =>
                IF ReceiverAlive(m, b.id)
                THEN /\ sent = << >>
                     /\ mux'[e].ms[b.id].frame_rx = Append(m.ms[b.id].frame_rx, b.data)
                ELSE /\ sent = <<new_rst(b.our, b.their)>>
                     /\ \A i \in DOMAIN m.ms : mux'[e].ms[i].frame_rx = m.ms[i].frame_rx

\* C26: on an inbound Psh whose destination port has no entry, or whose
\* receive queue's consumer is gone, the multiplexor emits exactly one Rst,
\* from that port back to the frame's source port, and delivers the payload to
\* no stream; if the port is present and its consumer alive, no Rst is emitted.
C26_PshToNobodyGetsRst == []PshAnswered /\ [][PshResumed]_vars

\* the user dropped a stream, the task has not yet taken the drop
\* notification, and a Psh for the stream's port has been answered with a Rst
C26_RstForDroppedReader ==
    \E e \in Role : \E i \in DOMAIN mux[e].ms :
        /\ mux[e].ms[i].st = "dropped"
        /\ mux[e].streams[mux[e].ms[i].our_port] = i
        /\ mux[e].dropped_ports # << >>
        /\ mux[e].ms[i].our_port # mux[e].ms[i].their_port
        /\ wire[Peer(e)] = <<new_rst(mux[e].ms[i].our_port, mux[e].ms[i].their_port)>>

\* this step puts a new entry in the client's port table
ClientCreatesStream ==
    \E p \in Ports :
        /\ mux'["Client"].streams[p] # 0
        /\ mux'["Client"].streams[p] # mux["Client"].streams[p]

\* C27: a client-role multiplexor creates a stream from an Ack only after it
\* emitted the corresponding Syn: when the stream is created, a Syn of this
\* client is still unanswered, so one of its client_new_stream_channel calls
\* is still waiting.
C27_AckAfterSyn ==
    [][ClientCreatesStream => mux["Client"].pending # << >>]_vars

\* the payloads of the Ping and Pong messages considered
ControlPayloads == {EOF, <<0>>, <<7, 0, 7>>}

\* whenever the task can take a message, and the transport takes the reply: a
\* Ping with payload p is answered with one Pong with payload p, a Pong with
\* nothing; the handler returns Ok(false) and the multiplexor (port table,
\* queues, streams) is as before
PingPongHandled ==
    \A e \in Role :
        (AtSelect(mux[e]) /\ mux[e].sink = "open") =>
            \A p \in ControlPayloads : \A key \in Ports :
                LET m == mux[e]
                    ping == SendResult(m, process_message(m, e, Ping(p), key), NoDrop)
                    pong == SendResult(m, process_message(m, e, Pong(p), key), NoDrop)
                IN  /\ Len(ping.out) = 1
                    /\ ping.out[1].kind = "Pong"
                    /\ ping.out[1].data = p
                    /\ pong.out = << >>
                    /\ ping.err = "none" /\ pong.err = "none"
                    /\ ping.m = m /\ pong.m = m
                    /\ Return(ping).task = "running" /\ Return(pong).task = "running"

\* a step that sends a Pong sends that one message and leaves the port table,
\* every receive queue and the loop as they were
PongStep ==
    \A e \in Role :
        (/\ wire'[Peer(e)] # wire[Peer(e)]
         /\ \E k \in 1..Len(wire'[Peer(e)]) : wire'[Peer(e)][k].kind = "Pong") =>
            /\ \/ wire'[Peer(e)] = <<Pong(EOF)>>
               \/ wire'[Peer(e)] = Append(wire[Peer(e)], Pong(EOF))
            /\ mux'[e].streams = mux[e].streams
            /\ \A i \in DOMAIN mux[e].ms : mux'[e].ms[i].frame_rx = mux[e].ms[i].frame_rx
            /\ mux'[e].task = "running"

\* C28: an inbound Ping with payload p makes the multiplexor send exactly one
\* Pong with the same payload p; an inbound Pong makes it send nothing; both
\* leave the port table and every receive queue unchanged and do not end the
\* loop.
C28_PingAnsweredPongIgnored == []PingPongHandled /\ [][PongStep]_vars

\* the task has answered a Ping while a stream with queued data is open: the
\* Pong is what it sent last, and it is still in its loop
C28_PongSent ==
    \E e \in Role : \E i \in Live(e) :
        /\ wire[Peer(e)] = <<Pong(EOF)>>
        /\ mux[e].task = "running"
        /\ mux[e].streams[mux[e].ms[i].our_port] = i
        /\ mux[e].ms[i].frame_rx # << >>

\* the task at end e takes a drop notification in this step
TakesDrop(e) ==
    /\ AtSelect(mux[e])
    /\ mux[e].dropped_ports # << >>
    /\ mux'[e].dropped_ports = Tail(mux[e].dropped_ports)

\* C29: a drop notification closes only the stream that sent it: the step that
\* handles it does not remove the entry of a stream still in its user's hands,
\* puts no EOF in that stream's queue and does not set its removed-flag, also
\* when that stream has the port of the dropped one.
C29_DropClosesOnlyItsStream ==
    [][\A e \in Role : \A i \in Live(e) :
          LET s == mux[e].ms[i]
          IN  (TakesDrop(e) /\ mux[e].streams[s.our_port] = i) =>
                  /\ mux'[e].streams[s.our_port] = i
                  /\ mux'[e].ms[i].frame_rx = s.frame_rx
                  /\ mux'[e].ms[i].stream_removed = s.stream_removed]_vars

\* how many empty payloads (EOF) queue q holds
EOFCount(q) == Cardinality({k \in 1..Len(q) : q[k] = EOF})

\* the empty payloads on their way to the reader of stream i of multiplexor m:
\* those in its queue, and the one the task is suspended with
EOFsFor(m, i) ==
    EOFCount(m.ms[i].frame_rx)
        + (IF m.blocked.kind = "send" /\ m.blocked.id = i /\ m.blocked.data = EOF
           THEN 1 ELSE 0)

\* whatever message the task can take: only a Fin or a Rst for the port of a
\* stream puts an empty payload on the way to that stream's reader
EOFOnlyByFinRst ==
    \A e \in Role :
        AtSelect(mux[e]) =>
            \A msg \in Takeable(e) : \A r \in Outcomes(e, msg) : \A i \in DOMAIN mux[e].ms :
                EOFsFor(r.m, i) > EOFsFor(mux[e], i) =>
                    /\ msg.kind = "Stream"
                    /\ msg.flag \in {"Fin", "Rst"}
                    /\ msg.dport = mux[e].ms[i].our_port

\* whatever Psh the task can take, with data or with none: no stream's reader
\* gets one more empty payload by it
PshGivesNoEOF ==
    \A e \in Role :
        AtSelect(mux[e]) =>
            \A msg \in Pshs : \A i \in DOMAIN mux[e].ms :
                EOFsFor(process_message(mux[e], e, msg, 0).m, i) = EOFsFor(mux[e], i)

\* C30: the reader of a stream observes end-of-stream only after the peer sent
\* Fin or Rst for that port, the local port was closed, or the multiplexor shut
\* down; an inbound Psh never makes the reader observe EOF, whatever the length
\* of its payload, zero included.
C30_EOFOnlyAfterClose == [](EOFOnlyByFinRst /\ PshGivesNoEOF)

\* the Ack frames a peer may send
Acks == {StreamFrame(s, d, "Ack", EOF) : s \in PeerPorts, d \in Ports}

\* the streams of multiplexor m that are still alive: made, and not dropped
StillAlive(m) == {i \in DOMAIN m.ms : m.ms[i].st \in {"queued", "live"}}

\* whatever Ack the client's task can take: a stream still alive that has the
\* entry of the Ack's destination port keeps that entry, and the stream itself
\* (queue, removed-flag) is as before
AckKeepsEntry ==
    LET m == mux["Client"]
    IN  (AtSelect(m) /\ FreeSlots(m) # {}) =>
            \A msg \in Acks : \A i \in StillAlive(m) :
                LET r == process_message(m, "Client", msg, 0)
                IN  m.streams[msg.dport] = i =>
                        /\ r.m.streams[msg.dport] = i
                        /\ r.m.ms[i] = m.ms[i]

\* no step of the client gives the entry of a stream still alive to another
\* stream: the entry stays, or goes
AckNoOverwrite ==
    \A p \in Ports :
        LET i == mux["Client"].streams[p]
        IN  (i # 0 /\ i \in StillAlive(mux["Client"])) =>
                mux'["Client"].streams[p] \in {0, i}

\* C31: on a client-role multiplexor an inbound Ack never replaces the port
\* table entry of a stream that is still alive: if the Ack's destination port
\* has an entry, the stream of that entry keeps it, with its receive queue and
\* its removed-flag.
C31_AckKeepsLiveEntry == []AckKeepsEntry /\ [][AckNoOverwrite]_vars

\* whatever Syn with a handshake cut short the server's task can take: no
\* entry is created, no Ack (no message at all) is sent, and the handler ends
\* with an error that task_inner returns, so that shutdown is next
ShortSynIsError ==
    \A e \in Role :
        (AtSelect(mux[e]) /\ e = "Server") =>
            \A msg \in CraftedSyn : \A key \in Ports :
                LET r == process_message(mux[e], e, msg, key)
                IN  /\ r.m.streams = mux[e].streams
                    /\ r.out = << >>
                    /\ r.err \notin {"none", "Close"}
                    /\ Return(r).task = "shutdown"
                    /\ Return(r).result = r.err

\* the task never ends without shutdown
TaskNeverAborts == \A e \in Role : mux[e].task # "panicked"

\* C32: in server role an inbound Syn whose payload is shorter than a complete
\* handshake (no payload, a host length larger than the octets left, no
\* destination port) is an error outcome of the demultiplex task: no entry is
\* created, no Ack is sent, and shutdown still runs; the task does not abort
\* without shutdown.
C32_ShortSynShutsDown == [](ShortSynIsError /\ TaskNeverAborts)

\* handle_remote runs a Stdio arm that asks for channels in its loop, and is
\* about to call request_channel on a command channel that is closed
StdioRequestOnClosed ==
    /\ remote.pc = "request_channel"
    /\ remote.kind \in {"stdio_tcp", "stdio_udp"}
    /\ remote.command_rx = "closed"

\* C33: when the command channel to the client's main loop is closed, so that
\* every request_channel call fails, handle_remote for a Stdio local endpoint
\* returns in the end; it does not retry request_channel for ever.
C33_ClosedChannelReturns == StdioRequestOnClosed ~> (remote.pc = "returned")

=============================================================================
